---------------------------- MODULE Spec2Model ----------------------------
(***************************************************************************)
(* A model of the pixoo-toolkit: the color resolver (src/src/color.ts),    *)
(* the Canvas pixel surface with its drawing primitives                    *)
(* (src/src/canvas.ts), the bitmap fonts and the device client             *)
(* (src/src/font.ts), the interpreter of SVG paths (src/src/svg-path.ts)   *)
(* and the Animation frame list (src/src/animation.ts).                    *)
(*                                                                         *)
(* Numbers.  JavaScript numbers that the modelled code can produce from    *)
(* the inputs drawn here are integers or rationals.  A coordinate, length  *)
(* or offset argument x is carried as the integer x*Den (a multiple of     *)
(* 1/Den), so that Math.floor does real work; colors, channels and buffer  *)
(* bytes are integers.  Where NaN can arise (parseInt) a number is carried  *)
(* as a tuple: <<n>> for the number n and <<>> for NaN.                    *)
(*                                                                         *)
(* Strings are sequences of one-character strings.                         *)
(*                                                                         *)
(* Buffers are objects of a heap, and a Canvas holds the id of its buffer, *)
(* so that copying and sharing a buffer are different things.  Every       *)
(* drawing method yields the buffer it leaves together with a flag that    *)
(* tells whether it indexed the buffer outside its elements.               *)
(*                                                                         *)
(* Specifications:                                                         *)
(*   Spec       sequences of pixel and whole-surface operations on two     *)
(*              canvases, with clone() and construction from an array      *)
(*   SpecDraw   sequences of all drawing methods with whole-number         *)
(*              arguments inside and outside the surface                   *)
(*   SpecRect   one fillRect with fractional arguments                     *)
(*   SpecColor  one call of a pure color function                          *)
(*   SpecOp     one blit, scroll or blendPixel on a canvas                 *)
(*   SpecText   one call of measureText or drawText                        *)
(*   SpecPath   one call of parseSvgPath                                   *)
(*   SpecSend   one call of PixooClient.send with every outcome of fetch   *)
(*   SpecPush   calls of push and pushAnimation, one after the other       *)
(*   SpecAnim   an Animation constructed, grown, indexed and drawn on      *)
(*   SpecShape  one drawLine, drawRect or fillTriangle on whole-number     *)
(*              vertices (drawLine on fractional endpoints too)            *)
(*   SpecOffset one blit or scroll with whole and fractional offsets       *)
(*   SpecPoly   one call of fillPolygon on a list of points                *)
(*   SpecCurve  one call of parseSvgPath on curve commands                 *)
(*   SpecOverlap calls of push and pushAnimation that overlap              *)
(*   SpecGlyph  one drawText in a built-in font                            *)
(***************************************************************************)
EXTENDS Integers, Sequences, FiniteSets, TLC

VARIABLES
    heap,    \* the Uint8Arrays allocated so far: heap[id] is a sequence of bytes
    cv,      \* cv[name] = id of the buffer owned by Canvas `name`, 0 = not constructed
    origin,  \* origin[name] = how Canvas `name` was built: "new", "source", "clone", "none"
    source,  \* id of the caller's own Uint8Array handed to `new Canvas(source)`, 0 = none
    oob,     \* TRUE once any operation has indexed a buffer outside [0, length)
    nops,    \* number of operations performed
    last,    \* the last operation: [op, on, arg, pre, ret]
    picId,   \* PixooClient.picId
    retries, \* PixooClient.retries
    calls,   \* the asynchronous calls on the client: where each one stands
    log,     \* the requests handed to fetch so far, in order
    anim     \* the Animation object: frames holds the ids of the buffers of its canvases

clientVars == <<picId, retries, calls, log>>

vars == <<heap, cv, origin, source, oob, nops, last, clientVars, anim>>

\* No Animation has been constructed
NoAnimation == [built |-> FALSE, frames |-> <<>>, size |-> 0]

\* No PixooClient has been constructed
NoClient == picId = 0 /\ retries = 0 /\ calls = <<>> /\ log = <<>>

-----------------------------------------------------------------------------
(* Bounds of the model *)

\* Side of the square surface.  The source fixes DISPLAY_SIZE = 64
\* (canvas.ts:3); the model runs the same code on a smaller surface.
DISPLAY_SIZE == 4
\* Denominator of the fractional coordinates drawn as inputs.
Den == 2
\* Longest string drawn from StrAlphabet.
MaxStrLen == 6
\* Operations per behaviour of the canvas specifications.
MaxOps == 2

PIXEL_COUNT == DISPLAY_SIZE * DISPLAY_SIZE
BUFFER_SIZE == PIXEL_COUNT * 3

-----------------------------------------------------------------------------
(* JavaScript number helpers *)

NaN == <<>>

Min2(a, b) == IF a <= b THEN a ELSE b
Max2(a, b) == IF a >= b THEN a ELSE b
Abs(a) == IF a < 0 THEN -a ELSE a

\* Math.floor / Math.ceil of the rational n/d, d > 0
FloorDiv(n, d) == n \div d
CeilDiv(n, d) == -((-n) \div d)
\* Math.round of the rational n/d, d > 0: floor(n/d + 1/2)
RoundDiv(n, d) == (2 * n + d) \div (2 * d)

\* Math.floor of a coordinate argument carried as x*Den
Floor(x) == FloorDiv(x, Den)

\* Storing an integer into a Uint8Array element: ToUint8 (modulo 2^8)
ToUint8(v) == v % 256

-----------------------------------------------------------------------------
(* color.ts *)

HexVal ==
    "0" :> 0 @@ "1" :> 1 @@ "2" :> 2 @@ "3" :> 3 @@ "4" :> 4 @@ "5" :> 5 @@
    "6" :> 6 @@ "7" :> 7 @@ "8" :> 8 @@ "9" :> 9 @@
    "a" :> 10 @@ "b" :> 11 @@ "c" :> 12 @@ "d" :> 13 @@ "e" :> 14 @@ "f" :> 15 @@
    "A" :> 10 @@ "B" :> 11 @@ "C" :> 12 @@ "D" :> 13 @@ "E" :> 14 @@ "F" :> 15

IsHexDigit(ch) == ch \in DOMAIN HexVal

LowerOf ==
    "A" :> "a" @@ "B" :> "b" @@ "C" :> "c" @@ "D" :> "d" @@ "E" :> "e" @@
    "F" :> "f" @@ "G" :> "g" @@ "H" :> "h" @@ "I" :> "i" @@ "J" :> "j" @@
    "K" :> "k" @@ "L" :> "l" @@ "M" :> "m" @@ "N" :> "n" @@ "O" :> "o" @@
    "P" :> "p" @@ "Q" :> "q" @@ "R" :> "r" @@ "S" :> "s" @@ "T" :> "t" @@
    "U" :> "u" @@ "V" :> "v" @@ "W" :> "w" @@ "X" :> "x" @@ "Y" :> "y" @@
    "Z" :> "z"

\* String.prototype.toLowerCase
ToLowerCase(s) ==
    [i \in 1..Len(s) |-> IF s[i] \in DOMAIN LowerOf THEN LowerOf[s[i]] ELSE s[i]]

\* s.slice(from, to) with 0-based, end-exclusive indices, clipped to the string
Slice(s, from, to) == SubSeq(s, from + 1, Min2(to, Len(s)))

RECURSIVE DropWhitespace(_)
DropWhitespace(s) ==
    IF Len(s) > 0 /\ s[1] = " " THEN DropWhitespace(Tail(s)) ELSE s

RECURSIVE HexPrefixValue(_, _, _)
\* value of the longest prefix of hex digits of s, NaN when that prefix is empty
HexPrefixValue(s, acc, seen) ==
    IF Len(s) > 0 /\ IsHexDigit(s[1])
    THEN HexPrefixValue(Tail(s), acc * 16 + HexVal[s[1]], TRUE)
    ELSE IF seen THEN <<acc>> ELSE NaN

\* parseInt(s, 16): leading whitespace, an optional sign, an optional 0x/0X
\* prefix, then the longest run of hex digits; NaN if that run is empty.
ParseInt16(s) ==
    LET t == DropWhitespace(s)
        neg == Len(t) > 0 /\ t[1] = "-"
        u == IF Len(t) > 0 /\ t[1] \in {"+", "-"} THEN Tail(t) ELSE t
        w == IF Len(u) >= 2 /\ u[1] = "0" /\ u[2] \in {"x", "X"}
             THEN SubSeq(u, 3, Len(u)) ELSE u
        v == HexPrefixValue(w, 0, FALSE)
    IN  IF v = NaN THEN NaN ELSE IF neg THEN <<-v[1]>> ELSE v

\* `r || 0`: NaN and 0 are falsy
OrZero(v) == IF v = NaN THEN 0 ELSE v[1]

\* hexToRgb (color.ts:55-57): (hex >> 16) & 0xff, (hex >> 8) & 0xff, hex & 0xff
hexToRgb(hex) == <<(hex \div 65536) % 256, (hex \div 256) % 256, hex % 256>>

\* parseHexString (color.ts:60-72)
parseHexString(s) ==
    LET clean == IF Len(s) > 0 /\ s[1] = "#" THEN Tail(s) ELSE s
    IN  IF Len(clean) = 3
        THEN <<OrZero(ParseInt16(<<clean[1], clean[1]>>)),
               OrZero(ParseInt16(<<clean[2], clean[2]>>)),
               OrZero(ParseInt16(<<clean[3], clean[3]>>))>>
        ELSE <<OrZero(ParseInt16(Slice(clean, 0, 2))),
               OrZero(ParseInt16(Slice(clean, 2, 4))),
               OrZero(ParseInt16(Slice(clean, 4, 6)))>>

\* NAMED_COLORS (color.ts:109-143)
NAMED_COLORS ==
    <<"b","l","a","c","k">> :> <<0, 0, 0>> @@
    <<"w","h","i","t","e">> :> <<255, 255, 255>> @@
    <<"r","e","d">> :> <<255, 0, 0>> @@
    <<"g","r","e","e","n">> :> <<0, 255, 0>> @@
    <<"b","l","u","e">> :> <<0, 0, 255>> @@
    <<"y","e","l","l","o","w">> :> <<255, 255, 0>> @@
    <<"c","y","a","n">> :> <<0, 255, 255>> @@
    <<"m","a","g","e","n","t","a">> :> <<255, 0, 255>> @@
    <<"o","r","a","n","g","e">> :> <<255, 165, 0>> @@
    <<"p","u","r","p","l","e">> :> <<128, 0, 128>> @@
    <<"p","i","n","k">> :> <<255, 105, 180>> @@
    <<"g","r","a","y">> :> <<128, 128, 128>> @@
    <<"g","r","e","y">> :> <<128, 128, 128>> @@
    <<"d","a","r","k","g","r","a","y">> :> <<64, 64, 64>> @@
    <<"d","a","r","k","g","r","e","y">> :> <<64, 64, 64>> @@
    <<"l","i","g","h","t","g","r","a","y">> :> <<192, 192, 192>> @@
    <<"l","i","g","h","t","g","r","e","y">> :> <<192, 192, 192>> @@
    <<"b","r","o","w","n">> :> <<139, 69, 19>> @@
    <<"l","i","m","e">> :> <<0, 255, 0>> @@
    <<"t","e","a","l">> :> <<0, 128, 128>> @@
    <<"n","a","v","y">> :> <<0, 0, 128>> @@
    <<"m","a","r","o","o","n">> :> <<128, 0, 0>> @@
    <<"o","l","i","v","e">> :> <<128, 128, 0>> @@
    <<"c","o","r","a","l">> :> <<255, 127, 80>> @@
    <<"s","a","l","m","o","n">> :> <<250, 128, 114>> @@
    <<"g","o","l","d">> :> <<255, 215, 0>> @@
    <<"i","n","d","i","g","o">> :> <<75, 0, 130>> @@
    <<"v","i","o","l","e","t">> :> <<238, 130, 238>> @@
    <<"t","u","r","q","u","o","i","s","e">> :> <<64, 224, 208>> @@
    <<"c","l","a","u","d","e">> :> <<230, 150, 70>> @@
    <<"c","l","a","u","d","e","-","o","r","a","n","g","e">> :> <<230, 150, 70>> @@
    <<"c","l","a","u","d","e","-","t","a","n">> :> <<210, 180, 140>>

\* A ColorLike is a record tagged by the JavaScript type of the value:
\* RGBOf(v) an array v (possibly short), Num(n) a number, Str(s) a string,
\* Other a value of any other type.  The fields a tag does not use are empty.
RGBOf(v) == [t |-> "rgb", rgb |-> v, n |-> 0, s |-> <<>>]
RGBc(r, g, b) == RGBOf(<<r, g, b>>)
Num(n) == [t |-> "num", rgb |-> <<>>, n |-> n, s |-> <<>>]
Str(s) == [t |-> "str", rgb |-> <<>>, n |-> 0, s |-> s]
Other == [t |-> "other", rgb |-> <<>>, n |-> 0, s |-> <<>>]


\* `c[i] ?? 0` on an array
ChannelOrZero(a, i) == IF i <= Len(a) THEN a[i] ELSE 0

\* resolveColor (color.ts:75-86)
resolveColor(c) ==
    IF c.t = "rgb"
    THEN <<ChannelOrZero(c.rgb, 1), ChannelOrZero(c.rgb, 2), ChannelOrZero(c.rgb, 3)>>
    ELSE IF c.t = "num" THEN hexToRgb(c.n)
    ELSE IF c.t = "str"
    THEN IF ToLowerCase(c.s) \in DOMAIN NAMED_COLORS
         THEN NAMED_COLORS[ToLowerCase(c.s)]
         ELSE parseHexString(c.s)
    ELSE <<255, 255, 255>>

\* lerpColor (color.ts:89-96) with t = tn/td, td > 0
lerpColor(a, b, tn, td) ==
    LET un == Max2(0, Min2(td, tn))
    IN  [i \in 1..3 |-> RoundDiv(a[i] * td + (b[i] - a[i]) * un, td)]

\* dimColor (color.ts:99-105) with factor = fn/fd, fd > 0
dimColor(c, fn, fd) == [i \in 1..3 |-> RoundDiv(c[i] * fn, fd)]

-----------------------------------------------------------------------------
(* canvas.ts: buffers and pixel access *)

\* What reading a typed array outside its elements yields (`undefined`);
\* it is no byte.
Undefined == 0 - 1

\* new Uint8Array(BUFFER_SIZE): zero-filled
ZeroBuffer == [k \in 1..BUFFER_SIZE |-> 0]

\* An index i (0-based) of buffer b that is no element of it
OutOfRange(b, i) == i < 0 \/ i >= Len(b)

\* b[i] as an rvalue
ReadByte(b, i) == IF OutOfRange(b, i) THEN Undefined ELSE b[i + 1]

\* The result of a drawing operation: the buffer it leaves and whether it
\* indexed the buffer outside its elements.
Result(b, bad) == [buf |-> b, bad |-> bad]

\* b[i] = r; b[i+1] = g; b[i+2] = b for every i of the set I, all with the
\* same color (a store outside the elements is dropped by the typed array)
PaintSet(b, I, rgb) ==
    Result([k \in 1..Len(b) |->
               IF (k - 1) \in I THEN ToUint8(rgb[1])
               ELSE IF (k - 2) \in I THEN ToUint8(rgb[2])
               ELSE IF (k - 3) \in I THEN ToUint8(rgb[3])
               ELSE b[k]],
           \E i \in I : OutOfRange(b, i) \/ OutOfRange(b, i + 2))

\* Canvas.idx (canvas.ts:33-35)
idx(x, y) == (y * DISPLAY_SIZE + x) * 3

\* inBounds without its upper limits
inBoundsNoUpper(x, y) == x >= 0 /\ y >= 0

\* Canvas.inBounds (canvas.ts:37-39)
inBounds(x, y) == x >= 0 /\ x < DISPLAY_SIZE /\ y >= 0 /\ y < DISPLAY_SIZE

\* setPixel without its bounds test
setPixelUnchecked(b, x, y, c) ==
    PaintSet(b, {idx(Floor(x), Floor(y))}, resolveColor(c))

\* Canvas.setPixel (canvas.ts:42-52); x, y in units of 1/Den
setPixel(b, x, y, c) ==
    LET ix == Floor(x)
        iy == Floor(y)
    IN  IF ~inBounds(ix, iy) THEN Result(b, FALSE)
        ELSE PaintSet(b, {idx(ix, iy)}, resolveColor(c))

\* getPixel reading the three bytes in the opposite order
getPixelReversed(b, x, y) ==
    LET ix == Floor(x)
        iy == Floor(y)
        i == idx(ix, iy)
    IN  IF ~inBounds(ix, iy) THEN [rgb |-> <<0, 0, 0>>, bad |-> FALSE]
        ELSE [rgb |-> <<ReadByte(b, i + 2), ReadByte(b, i + 1), ReadByte(b, i)>>,
              bad |-> OutOfRange(b, i) \/ OutOfRange(b, i + 2)]

\* Canvas.getPixel (canvas.ts:55-61): the triplet returned and whether the
\* read left the buffer
getPixel(b, x, y) ==
    LET ix == Floor(x)
        iy == Floor(y)
        i == idx(ix, iy)
    IN  IF ~inBounds(ix, iy) THEN [rgb |-> <<0, 0, 0>>, bad |-> FALSE]
        ELSE [rgb |-> <<ReadByte(b, i), ReadByte(b, i + 1), ReadByte(b, i + 2)>>,
              bad |-> OutOfRange(b, i) \/ OutOfRange(b, i + 2)]

\* Canvas.clear (canvas.ts:66-78)
clear(b, c) ==
    LET rgb == resolveColor(c)
    IN  IF rgb[1] = 0 /\ rgb[2] = 0 /\ rgb[3] = 0
        THEN Result([k \in 1..Len(b) |-> 0], FALSE)
        ELSE PaintSet(b, {i \in 0..(BUFFER_SIZE - 1) : i % 3 = 0}, rgb)

\* fillRect without the clip of its start to the surface
fillRectUnclipped(b, x, y, w, h, c) ==
    LET rgb == resolveColor(c)
        x1 == Min2(DISPLAY_SIZE, Floor(x + w))
        y1 == Min2(DISPLAY_SIZE, Floor(y + h))
    IN  PaintSet(b, {idx(px, py) : px \in Floor(x)..(x1 - 1), py \in Floor(y)..(y1 - 1)}, rgb)

\* Canvas.fillRect (canvas.ts:81-96); x, y, w, h in units of 1/Den
fillRect(b, x, y, w, h, c) ==
    LET rgb == resolveColor(c)
        x0 == Max2(0, Floor(x))
        y0 == Max2(0, Floor(y))
        x1 == Min2(DISPLAY_SIZE, Floor(x + w))
        y1 == Min2(DISPLAY_SIZE, Floor(y + h))
    IN  PaintSet(b, {idx(px, py) : px \in x0..(x1 - 1), py \in y0..(y1 - 1)}, rgb)

\* Math.ceil of a coordinate carried as x*Den
Ceil(x) == CeilDiv(x, Den)

\* A loop runs its next iteration on the evaluated result of the previous
\* one: Evaluated(r) is true of every result r
Evaluated(r) == r.bad \in BOOLEAN

\* Canvas.fillCircle (canvas.ts:99-119); cx, cy, radius in units of 1/Den
fillCircle(b, cx, cy, radius, c) ==
    LET rgb == resolveColor(c)
        r2 == radius * radius
        x0 == Max2(0, Floor(cx - radius))
        y0 == Max2(0, Floor(cy - radius))
        x1 == Min2(DISPLAY_SIZE - 1, Ceil(cx + radius))
        y1 == Min2(DISPLAY_SIZE - 1, Ceil(cy + radius))
    IN  PaintSet(b,
                 {idx(p[1], p[2]) :
                     p \in {q \in (x0..x1) \X (y0..y1) :
                              LET dx == q[1] * Den - cx
                                  dy == q[2] * Den - cy
                              IN  dx * dx + dy * dy <= r2}},
                 rgb)

\* Canvas.drawLineH (canvas.ts:189-202)
drawLineH(b, x, y, length, c) ==
    LET rgb == resolveColor(c)
        iy == Floor(y)
        x0 == Max2(0, Floor(x))
        x1 == Min2(DISPLAY_SIZE, Floor(x + length))
    IN  IF iy < 0 \/ iy >= DISPLAY_SIZE THEN Result(b, FALSE)
        ELSE PaintSet(b, {idx(px, iy) : px \in x0..(x1 - 1)}, rgb)

\* Canvas.drawLineV (canvas.ts:205-218)
drawLineV(b, x, y, length, c) ==
    LET rgb == resolveColor(c)
        ix == Floor(x)
        y0 == Max2(0, Floor(y))
        y1 == Min2(DISPLAY_SIZE, Floor(y + length))
    IN  IF ix < 0 \/ ix >= DISPLAY_SIZE THEN Result(b, FALSE)
        ELSE PaintSet(b, {idx(ix, py) : py \in y0..(y1 - 1)}, rgb)

\* Canvas.drawRect (canvas.ts:124-130); the literal 1 is Den in units of 1/Den
drawRect(b, x, y, w, h, c) ==
    LET r1 == drawLineH(b, x, y, w, c)
        r2 == drawLineH(r1.buf, x, y + h - Den, w, c)
        r3 == drawLineV(r2.buf, x, y, h, c)
        r4 == drawLineV(r3.buf, x + w - Den, y, h, c)
    IN  Result(r4.buf, r1.bad \/ r2.bad \/ r3.bad \/ r4.bad)

\* this.setPixel(px, py, c) for every point of the set P (units of 1/Den),
\* all with the same color
SetPixels(b, P, c) ==
    PaintSet(b,
             {idx(Floor(p[1]), Floor(p[2])) :
                 p \in {q \in P : inBounds(Floor(q[1]), Floor(q[2]))}},
             resolveColor(c))

RECURSIVE CirclePoints(_, _, _, _, _)
\* The points the loop of drawCircle plots from (x, y, d) on (canvas.ts:138-154)
CirclePoints(cx, cy, x, y, d) ==
    IF ~(x >= y) THEN {}
    ELSE {<<cx + x, cy + y>>, <<cx - x, cy + y>>, <<cx + x, cy - y>>,
          <<cx - x, cy - y>>, <<cx + y, cy + x>>, <<cx - y, cy + x>>,
          <<cx + y, cy - x>>, <<cx - y, cy - x>>}
         \cup (LET y1 == y + Den
               IN  IF d <= 0
                   THEN CirclePoints(cx, cy, x, y1, d + 2 * y1 + Den)
                   ELSE CirclePoints(cx, cy, x - Den, y1,
                                     d + 2 * (y1 - (x - Den)) + Den))

\* Canvas.drawCircle (canvas.ts:133-156); cx, cy, radius in units of 1/Den
drawCircle(b, cx, cy, radius, c) ==
    SetPixels(b, CirclePoints(cx, cy, radius, 0, Den - radius),
              RGBOf(resolveColor(c)))

RECURSIVE LinePoints(_, _, _, _, _, _, _, _, _)
\* The pixels the loop of drawLine plots from (cx, cy, err) on
\* (canvas.ts:172-184); whole pixels
LinePoints(cx, cy, x1, y1, dx, dy, sx, sy, err) ==
    {<<cx, cy>>} \cup
    (IF cx = x1 /\ cy = y1 THEN {}
     ELSE LET e2 == 2 * err
              stepx == e2 >= dy
              stepy == e2 <= dx
          IN  LinePoints(IF stepx THEN cx + sx ELSE cx,
                         IF stepy THEN cy + sy ELSE cy,
                         x1, y1, dx, dy, sx, sy,
                         err + (IF stepx THEN dy ELSE 0) + (IF stepy THEN dx ELSE 0)))

\* Canvas.drawLine (canvas.ts:159-186); endpoints in units of 1/Den
drawLine(b, x0, y0, x1, y1, c) ==
    LET fx0 == Floor(x0)
        fy0 == Floor(y0)
        fx1 == Floor(x1)
        fy1 == Floor(y1)
        dx == Abs(fx1 - fx0)
        dy == -Abs(fy1 - fy0)
        sx == IF fx0 < fx1 THEN 1 ELSE -1
        sy == IF fy0 < fy1 THEN 1 ELSE -1
    IN  SetPixels(b,
                  {<<p[1] * Den, p[2] * Den>> :
                      p \in LinePoints(fx0, fy0, fx1, fy1, dx, dy, sx, sy, dx + dy)},
                  RGBOf(resolveColor(c)))

\* Canvas.drawTriangle (canvas.ts:221-234)
drawTriangle(b, x0, y0, x1, y1, x2, y2, c) ==
    LET r1 == drawLine(b, x0, y0, x1, y1, c)
        r2 == drawLine(r1.buf, x1, y1, x2, y2, c)
        r3 == drawLine(r2.buf, x2, y2, x0, y0, c)
    IN  Result(r3.buf, r1.bad \/ r2.bad \/ r3.bad)

\* A rational edge position: <<n, d>> with d > 0 stands for n/d, in units
\* of 1/Den
RatLeq(p, q) == p[1] * q[2] <= q[1] * p[2]
RatMin(p, q) == IF RatLeq(p, q) THEN p ELSE q
RatMax(p, q) == IF RatLeq(p, q) THEN q ELSE p

\* lerp of fillTriangle (canvas.ts:284-285) at scanline row y (a whole
\* number); ya, xa, yb, xb in units of 1/Den
lerp(y, ya, xa, yb, xb) ==
    IF ya = yb THEN <<xa, 1>>
    ELSE IF yb > ya THEN <<xa * (yb - ya) + (y * Den - ya) * (xb - xa), yb - ya>>
    ELSE <<-(xa * (yb - ya) + (y * Den - ya) * (xb - xa)), ya - yb>>

\* scanline of fillTriangle (canvas.ts:264-282): the buffer indices written
\* for rows ya..yb between edge e1 and edge e2, an edge being
\* <<ya, xa, yb, xb>>
scanline(ya, yb, e1, e2) ==
    LET yStart == Max2(0, Ceil(ya))
        yEnd == Min2(DISPLAY_SIZE - 1, Floor(yb))
        xLeft(y) == RatMin(lerp(y, e1[1], e1[2], e1[3], e1[4]),
                           lerp(y, e2[1], e2[2], e2[3], e2[4]))
        xRight(y) == RatMax(lerp(y, e1[1], e1[2], e1[3], e1[4]),
                            lerp(y, e2[1], e2[2], e2[3], e2[4]))
        xl(y) == Max2(0, CeilDiv(xLeft(y)[1], xLeft(y)[2] * Den))
        xr(y) == Min2(DISPLAY_SIZE - 1, FloorDiv(xRight(y)[1], xRight(y)[2] * Den))
    IN  UNION {{(y * DISPLAY_SIZE + x) * 3 : x \in xl(y)..xr(y)} : y \in yStart..yEnd}

\* A vertex sort that leaves out the last exchange
SortVerticesTwoSwaps(v) ==
    LET s1 == IF v[2] > v[4] THEN <<v[3], v[4], v[1], v[2], v[5], v[6]>> ELSE v
        s2 == IF s1[2] > s1[6] THEN <<s1[5], s1[6], s1[3], s1[4], s1[1], s1[2]>> ELSE s1
    IN  s2

\* The vertex sort of fillTriangle (canvas.ts:248-262) on
\* <<ax, ay, bx, by, cx, cy>>
SortVertices(v) ==
    LET s1 == IF v[2] > v[4] THEN <<v[3], v[4], v[1], v[2], v[5], v[6]>> ELSE v
        s2 == IF s1[2] > s1[6] THEN <<s1[5], s1[6], s1[3], s1[4], s1[1], s1[2]>> ELSE s1
        s3 == IF s2[4] > s2[6] THEN <<s2[1], s2[2], s2[5], s2[6], s2[3], s2[4]>> ELSE s2
    IN  s3

\* Canvas.fillTriangle (canvas.ts:237-322); vertices in units of 1/Den
fillTriangle(b, x0, y0, x1, y1, x2, y2, c) ==
    LET rgb == resolveColor(c)
        s == SortVertices(<<x0, y0, x1, y1, x2, y2>>)
        ax == s[1]
        ay == s[2]
        bx == s[3]
        by == s[4]
        cx == s[5]
        cy == s[6]
        upper == IF by > ay
                 THEN scanline(ay, by - Den, <<ay, ax, by, bx>>, <<ay, ax, cy, cx>>)
                 ELSE {}
        lower == IF cy > by
                 THEN scanline(by, cy, <<by, bx, cy, cx>>, <<ay, ax, cy, cx>>)
                 ELSE {}
    IN  PaintSet(b, upper \cup lower, rgb)

\* A blendPixel that replaces the pixel for every positive alpha
blendPixelOpaque(b, x, y, c, an, ad) ==
    IF an <= 0 THEN Result(b, FALSE) ELSE setPixel(b, x, y, c)

\* Canvas.blendPixel (canvas.ts:327-333) with alpha = an/ad, ad > 0
blendPixel(b, x, y, c, an, ad) ==
    IF an <= 0 THEN Result(b, FALSE)
    ELSE IF an >= ad THEN setPixel(b, x, y, c)
    ELSE LET bg == getPixel(b, Floor(x) * Den, Floor(y) * Den)
             fg == resolveColor(c)
             r == setPixel(b, x, y, RGBOf(lerpColor(bg.rgb, fg, an, ad)))
         IN  Result(r.buf, r.bad \/ bg.bad)

\* A typed-array access b[i] where the number i is carried as i*Den: an
\* index that is no whole number, or no element, reads as undefined and
\* drops a store.
NoElement(b, i) == i % Den # 0 \/ OutOfRange(b, i \div Den)
ReadAt(b, i) == IF NoElement(b, i) THEN Undefined ELSE b[(i \div Den) + 1]
StoreAt(b, i, v) ==
    IF NoElement(b, i) THEN b
    ELSE [b EXCEPT ![(i \div Den) + 1] = IF v = Undefined THEN 0 ELSE ToUint8(v)]

\* The transparent key of blit (canvas.ts:341-342): opts is NoKey (no option
\* given), NullKey (transparent: null) or KeyOf(key); <<>> is null
NoKey == [t |-> "none", v |-> <<>>]
NullKey == [t |-> "null", v |-> <<>>]
KeyOf(key) == [t |-> "rgb", v |-> key]
\* A key that is black whatever option is given
SkipKeyAlwaysBlack(opts) == <<0, 0, 0>>

SkipKey(opts) ==
    IF opts.t = "none" THEN <<0, 0, 0>>
    ELSE IF opts.t = "null" THEN <<>>
    ELSE opts.v

\* One iteration of the inner loop of blit (canvas.ts:352-360) at source
\* pixel (sx, sy) on the result acc so far
BlitPixel(acc, src0, same, dx, dy, skip, sx, sy) ==
    LET src == IF same THEN acc.buf ELSE src0
        si == (sy * DISPLAY_SIZE + sx) * 3
        r == ReadAt(src, si)
        g == ReadAt(src, si + Den)
        bl == ReadAt(src, si + 2 * Den)
        di == ((dy + sy) * DISPLAY_SIZE + (dx + sx)) * 3
        rd == NoElement(src, si) \/ NoElement(src, si + 2 * Den)
    IN  IF skip # <<>> /\ r = skip[1] /\ g = skip[2] /\ bl = skip[3]
        THEN Result(acc.buf, acc.bad \/ rd)
        ELSE Result(StoreAt(StoreAt(StoreAt(acc.buf, di, r), di + Den, g),
                            di + 2 * Den, bl),
                    acc.bad \/ rd \/ NoElement(acc.buf, di)
                        \/ NoElement(acc.buf, di + 2 * Den))

RECURSIVE BlitLoop(_, _, _, _, _, _, _, _, _, _, _)
\* The loops of blit (canvas.ts:350-362) from source pixel (sx, sy) on
BlitLoop(acc, src0, same, dx, dy, skip, sx, sy, sxStart, sxEnd, syEnd) ==
    IF ~(Evaluated(acc) /\ sy < syEnd) THEN acc
    ELSE IF ~(sx < sxEnd)
    THEN BlitLoop(acc, src0, same, dx, dy, skip, sxStart, sy + Den, sxStart, sxEnd, syEnd)
    ELSE BlitLoop(BlitPixel(acc, src0, same, dx, dy, skip, sx, sy),
                  src0, same, dx, dy, skip, sx + Den, sy, sxStart, sxEnd, syEnd)

\* Canvas.blit (canvas.ts:340-364); dx, dy in units of 1/Den; `same` when
\* the source canvas is this canvas, so that src and dst are one buffer
blit(dst0, src0, same, dx, dy, opts) ==
    LET syStart == Max2(0, -dy)
        syEnd == Min2(DISPLAY_SIZE * Den, DISPLAY_SIZE * Den - dy)
        sxStart == Max2(0, -dx)
        sxEnd == Min2(DISPLAY_SIZE * Den, DISPLAY_SIZE * Den - dx)
    IN  BlitLoop(Result(dst0, FALSE), src0, same, dx, dy, SkipKey(opts),
                 sxStart, syStart, sxStart, sxEnd, syEnd)

RECURSIVE ScrollLoop(_, _, _, _, _)
\* The loops of scroll (canvas.ts:421-433) from pixel number k on (pixel
\* k is x = k % DISPLAY_SIZE, y = k \div DISPLAY_SIZE)
ScrollLoop(acc, copy, dx, dy, k) ==
    IF ~(Evaluated(acc) /\ k < PIXEL_COUNT) THEN acc
    ELSE LET y == k \div DISPLAY_SIZE
             x == k % DISPLAY_SIZE
             nx == x * Den + dx
             ny == y * Den + dy
             si == (y * DISPLAY_SIZE + x) * 3
             di == (ny * DISPLAY_SIZE + nx) * 3
         IN  ScrollLoop(
                 IF nx >= 0 /\ nx < DISPLAY_SIZE * Den /\ ny >= 0 /\ ny < DISPLAY_SIZE * Den
                 THEN Result(StoreAt(StoreAt(StoreAt(acc.buf, di, ReadByte(copy, si)),
                                             di + Den, ReadByte(copy, si + 1)),
                                     di + 2 * Den, ReadByte(copy, si + 2)),
                             acc.bad \/ OutOfRange(copy, si) \/ OutOfRange(copy, si + 2)
                                 \/ NoElement(acc.buf, di)
                                 \/ NoElement(acc.buf, di + 2 * Den))
                 ELSE acc,
                 copy, dx, dy, k + 1)

\* scroll without its clear to black
scrollUncleared(b, dx, dy) ==
    ScrollLoop(Result(b, FALSE), b, dx, dy, 0)

\* Canvas.scroll (canvas.ts:418-435); dx, dy in units of 1/Den
scroll(b, dx, dy) ==
    ScrollLoop(clear(b, RGBc(0, 0, 0)), b, dx, dy, 0)

RECURSIVE GradientVLoop(_, _, _, _)
\* The loop of gradientV (canvas.ts:372-376) from row y on
GradientVLoop(acc, top, bottom, y) ==
    IF ~(Evaluated(acc) /\ y < DISPLAY_SIZE) THEN acc
    ELSE LET r == drawLineH(acc.buf, 0, y * Den, DISPLAY_SIZE * Den,
                            RGBOf(lerpColor(top, bottom, y, DISPLAY_SIZE - 1)))
         IN  GradientVLoop(Result(r.buf, r.bad \/ acc.bad), top, bottom, y + 1)

\* Canvas.gradientV (canvas.ts:369-378)
gradientV(b, topColor, bottomColor) ==
    GradientVLoop(Result(b, FALSE), resolveColor(topColor), resolveColor(bottomColor), 0)

RECURSIVE GradientHLoop(_, _, _, _)
\* The loop of gradientH (canvas.ts:384-388) from column x on
GradientHLoop(acc, left, right, x) ==
    IF ~(Evaluated(acc) /\ x < DISPLAY_SIZE) THEN acc
    ELSE LET r == drawLineV(acc.buf, x * Den, 0, DISPLAY_SIZE * Den,
                            RGBOf(lerpColor(left, right, x, DISPLAY_SIZE - 1)))
         IN  GradientHLoop(Result(r.buf, r.bad \/ acc.bad), left, right, x + 1)

\* Canvas.gradientH (canvas.ts:381-390)
gradientH(b, leftColor, rightColor) ==
    GradientHLoop(Result(b, FALSE), resolveColor(leftColor), resolveColor(rightColor), 0)

\* L <= K * sqrt(D) for integers L, K and D >= 0
LeqRoot(L, K, D) ==
    IF L <= 0
    THEN IF K >= 0 THEN TRUE ELSE L * L >= K * K * D
    ELSE IF K <= 0 THEN FALSE ELSE L * L <= K * K * D

RECURSIVE RoundRootSearch(_, _, _, _, _)
\* The largest m in lo..hi - 1 with m - 1/2 <= K * sqrt(D) / radius, given
\* that lo satisfies it and hi does not: Math.round(K * sqrt(D) / radius)
RoundRootSearch(lo, hi, K, D, radius) ==
    IF hi - lo <= 1 THEN lo
    ELSE LET mid == (lo + hi) \div 2
         IN  IF LeqRoot((2 * mid - 1) * radius, 2 * K, D)
             THEN RoundRootSearch(mid, hi, K, D, radius)
             ELSE RoundRootSearch(lo, mid, K, D, radius)

\* Math.round(a + (bb - a) * (sqrt(D) / radius)) for radius > 0 and
\* D < radius * radius
RoundRootLerp(a, bb, D, radius) ==
    a + RoundRootSearch(Min2(0, bb - a) - 1, Max2(0, bb - a) + 1, bb - a, D, radius)

\* The color gradientRadial gives the pixel at squared distance D from the
\* center (canvas.ts:404-408); <<>> when every channel is NaN
RadialColor(inner, outer, D, radius) ==
    IF radius = 0
    THEN IF D = 0 THEN <<>> ELSE outer
    ELSE IF radius < 0 THEN inner
    ELSE IF D >= radius * radius THEN outer
    ELSE [i \in 1..3 |-> RoundRootLerp(inner[i], outer[i], D, radius)]

RECURSIVE GradientRadialLoop(_, _, _, _, _, _, _)
\* The loops of gradientRadial (canvas.ts:402-411) from pixel number k on
GradientRadialLoop(acc, cx, cy, radius, inner, outer, k) ==
    IF ~(Evaluated(acc) /\ k < PIXEL_COUNT) THEN acc
    ELSE LET y == k \div DISPLAY_SIZE
             x == k % DISPLAY_SIZE
             dx == x * Den - cx
             dy == y * Den - cy
             col == RadialColor(inner, outer, dx * dx + dy * dy, radius)
             r == setPixel(acc.buf, x * Den, y * Den,
                           RGBOf(IF col = <<>> THEN <<0, 0, 0>> ELSE col))
         IN  GradientRadialLoop(Result(r.buf, r.bad \/ acc.bad),
                                cx, cy, radius, inner, outer, k + 1)

\* Canvas.gradientRadial (canvas.ts:393-413); cx, cy, radius in units of 1/Den
gradientRadial(b, cx, cy, radius, innerColor, outerColor) ==
    GradientRadialLoop(Result(b, FALSE), cx, cy, radius,
                       resolveColor(innerColor), resolveColor(outerColor), 0)

-----------------------------------------------------------------------------
(* Canvas objects *)

\* A constructor that validates the length but keeps the caller's array
\* as its buffer instead of copying it
CanvasCtorAliasing(h, s) ==
    IF s # 0 /\ Len(h[s]) # BUFFER_SIZE
    THEN [threw |-> TRUE, heap |-> h, id |-> 0]
    ELSE IF s # 0 THEN [threw |-> FALSE, heap |-> h, id |-> s]
    ELSE [threw |-> FALSE, heap |-> Append(h, ZeroBuffer), id |-> Len(h) + 1]

\* new Canvas(source) (canvas.ts:19-24) on heap h; s is the id of the
\* source Uint8Array, 0 when no source is given.  Yields whether it threw,
\* the heap after it and the id of the new canvas's buffer.
CanvasCtor(h, s) ==
    IF s # 0 /\ Len(h[s]) # BUFFER_SIZE
    THEN [threw |-> TRUE, heap |-> h, id |-> 0]
    ELSE [threw |-> FALSE,
          heap |-> Append(h, IF s # 0 THEN h[s] ELSE ZeroBuffer),
          id |-> Len(h) + 1]

\* A clone that shares the original's buffer
CanvasCloneShared(h, id) == [threw |-> FALSE, heap |-> h, id |-> id]

\* Canvas.clone (canvas.ts:27-29) of the canvas whose buffer is h[id]
CanvasClone(h, id) == CanvasCtor(h, id)

\* The buffer of canvas n
Buf(n) == heap[cv[n]]

-----------------------------------------------------------------------------
(* Inputs *)

\* A pre-filled source buffer of n bytes
Pattern(n, m) == [k \in 1..n |-> (k * m + 1) % 256]
\* A sprite: pixels cycle through black, pure red and (10, 20, 30)
SpriteSource ==
    [k \in 1..BUFFER_SIZE |->
        LET p == (k - 1) \div 3
            ch == (k - 1) % 3
        IN  IF p % 3 = 0 THEN 0
            ELSE IF p % 3 = 1 THEN (IF ch = 0 THEN 255 ELSE 0)
            ELSE 10 * (ch + 1)]
SampleSources == {Pattern(BUFFER_SIZE, 7), SpriteSource}

\* Colors given to the pixel operations: a triplet, packed integers, names
\* in two cases, hex strings in both forms
PixelColors ==
    {RGBc(100, 150, 200), Num(65280), Num(-256),
     Str(<<"R", "e", "d">>), Str(<<"#", "0", "0", "f">>),
     Str(<<"f", "f", "8", "0", "4", "0">>)}

\* Coordinates of the pixel operations, in units of 1/Den: -1/Den, 1/Den,
\* DISPLAY_SIZE - 1/Den and DISPLAY_SIZE
PixelCoords == {-1, 1, DISPLAY_SIZE * Den - 1, DISPLAY_SIZE * Den}

\* Whole-number arguments of the drawing operations, in units of 1/Den:
\* negative, inside and beyond the surface
DrawSpots == {<<-Den, -Den>>, <<Den, Den>>, <<Den, (DISPLAY_SIZE + 1) * Den>>,
              <<(DISPLAY_SIZE + 1) * Den, Den>>}
DrawLens == {-Den, 2 * Den, (DISPLAY_SIZE + 2) * Den}
DrawPoints == {<<-Den, -2 * Den>>, <<Den, (DISPLAY_SIZE - 1) * Den>>,
               <<(DISPLAY_SIZE + 1) * Den, Den>>}
DrawColors == {RGBc(255, 0, 0)}
FarColors == {Num(255)}
DrawAlphas == {<<0, 1>>, <<1, 2>>, <<1, 1>>}
BlitKeys == {NoKey, NullKey, KeyOf(<<255, 0, 0>>)}

\* Every whole-number offset that keeps, partly keeps or loses the overlap
\* of two surfaces, in units of 1/Den
WholeOffsets == {k * Den : k \in (-(DISPLAY_SIZE + 1))..(DISPLAY_SIZE + 1)}

\* Alphas of blendPixel as <<numerator, denominator>>: negative, 0, inside
\* (0, 1), 1 and above 1
BlendAlphas == {<<-1, 2>>, <<0, 1>>, <<1, 3>>, <<1, 2>>, <<1, 1>>, <<3, 2>>}

\* Fractional arguments of fillRect, in units of 1/Den
RectCoords == {-Den - 1, -1, 0, 1, Den + 1, DISPLAY_SIZE * Den - 1, DISPLAY_SIZE * Den + 1}
RectLens == {-Den, 0, 1, Den - 1, Den + 1, 2 * Den, (DISPLAY_SIZE + 1) * Den + 1}

\* Lengths of the Uint8Arrays a caller hands to the constructor
SourceLens == {0, BUFFER_SIZE - 1, BUFFER_SIZE, BUFFER_SIZE + 1}

\* Strings given to the color functions: every string over StrAlphabet of at
\* most MaxStrLen characters, and the strings of color.test.ts
StrAlphabet == {"#", "0", "f", "z"}
StringsUpTo(n) == UNION {[1..k -> StrAlphabet] : k \in 0..n}
SampleStrings ==
    {<<"n", "o", "t", "a", "c", "o", "l", "o", "r">>,
     <<"#", "z", "z", "z", "z", "z", "z">>, <<"#", "f", "f", "0", "0", "0", "0">>,
     <<"x", "y", "z">>, <<"#", "a", "b", "c", "d">>, <<"a">>,
     <<"-", "f", "0", "0", "0", "0">>,
     <<"r", "e", "d">>, <<"R", "E", "D">>, <<"C", "l", "a", "u", "d", "e">>,
     <<"#", "F", "F", "8", "0", "4", "0">>, <<"a", "B", "c">>}
ColorStrings == StringsUpTo(MaxStrLen) \cup SampleStrings

\* Channels of the triplets given to the color functions
Channels == {-5, 0, 128, 200, 255, 300}
ByteChannels == {0, 100, 200, 255}
Triplets(S) == {<<r, g, b>> : r \in S, g \in S, b \in S}
ShortTriplets == {<<>>, <<255>>, <<0, 128>>}
PackedNumbers == {-256, -1, 0, 255, 65280, 16711680, 16777215, 16777216, 2147483647}
\* Factors of dimColor as <<numerator, denominator>>
Factors == {<<n, d>> : n \in -4..8, d \in 1..3}

ColorLikes ==
    {RGBOf(v) : v \in Triplets(Channels) \cup ShortTriplets}
    \cup {Num(n) : n \in PackedNumbers}
    \cup {Str(st) : st \in ColorStrings}
    \cup {Other}

-----------------------------------------------------------------------------
(* State machine *)

Canvases == {"a", "b"}

NoOp == [op |-> "init", on |-> "", arg |-> <<>>, pre |-> <<>>, ret |-> <<>>]

\* After `a = new Canvas()` or `a = new Canvas(source)` with a well-sized source
Init ==
    /\ \E s \in {<<>>} \cup SampleSources :
          LET h0 == IF s = <<>> THEN <<>> ELSE <<s>>
              r == CanvasCtor(h0, Len(h0))
          IN  /\ heap = r.heap
              /\ source = Len(h0)
              /\ cv = [a |-> r.id, b |-> 0]
              /\ origin = [a |-> IF s = <<>> THEN "new" ELSE "source", b |-> "none"]
    /\ oob = FALSE
    /\ nops = 0
    /\ last = NoOp
    /\ NoClient
    /\ anim = NoAnimation

\* A drawing operation `name(args)` on canvas n with result r
Draw(n, name, args, r) ==
    /\ cv[n] # 0
    /\ nops < MaxOps
    /\ heap' = [heap EXCEPT ![cv[n]] = r.buf]
    /\ oob' = (oob \/ r.bad)
    /\ nops' = nops + 1
    /\ last' = [op |-> name, on |-> n, arg |-> args, pre |-> heap, ret |-> <<>>]
    /\ UNCHANGED <<cv, origin, source, clientVars, anim>>

SetPixelOn(n, P, C) ==
    \E p \in P, c \in C :
        Draw(n, "setPixel", <<p[1], p[2], c>>, setPixel(Buf(n), p[1], p[2], c))

GetPixelOn(n, P) ==
    \E p \in P :
        /\ cv[n] # 0
        /\ nops < MaxOps
        /\ oob' = (oob \/ getPixel(Buf(n), p[1], p[2]).bad)
        /\ nops' = nops + 1
        /\ last' = [op |-> "getPixel", on |-> n, arg |-> <<p[1], p[2]>>, pre |-> heap,
                    ret |-> getPixel(Buf(n), p[1], p[2]).rgb]
        /\ UNCHANGED <<heap, cv, origin, source, clientVars, anim>>

ClearOn(n, C) ==
    \E c \in C : Draw(n, "clear", <<c>>, clear(Buf(n), c))

FillRectOn(n, P, L, C) ==
    \E p \in P, w \in L, h \in L, c \in C :
        Draw(n, "fillRect", <<p[1], p[2], w, h, c>>,
             fillRect(Buf(n), p[1], p[2], w, h, c))

FillCircleOn(n, P, L, C) ==
    \E p \in P, r \in L, c \in C :
        Draw(n, "fillCircle", <<p[1], p[2], r, c>>, fillCircle(Buf(n), p[1], p[2], r, c))

DrawRectOn(n, P, L, C) ==
    \E p \in P, w \in L, h \in L, c \in C :
        Draw(n, "drawRect", <<p[1], p[2], w, h, c>>,
             drawRect(Buf(n), p[1], p[2], w, h, c))

DrawCircleOn(n, P, L, C) ==
    \E p \in P, r \in L, c \in C :
        Draw(n, "drawCircle", <<p[1], p[2], r, c>>, drawCircle(Buf(n), p[1], p[2], r, c))

DrawLineOn(n, P, C) ==
    \E p \in P, q \in P, c \in C :
        Draw(n, "drawLine", <<p, q, c>>, drawLine(Buf(n), p[1], p[2], q[1], q[2], c))

DrawLineHOn(n, P, L, C) ==
    \E p \in P, l \in L, c \in C :
        Draw(n, "drawLineH", <<p[1], p[2], l, c>>, drawLineH(Buf(n), p[1], p[2], l, c))

DrawLineVOn(n, P, L, C) ==
    \E p \in P, l \in L, c \in C :
        Draw(n, "drawLineV", <<p[1], p[2], l, c>>, drawLineV(Buf(n), p[1], p[2], l, c))

DrawTriangleOn(n, P, C) ==
    \E p \in P, q \in P, r \in P, c \in C :
        Draw(n, "drawTriangle", <<p, q, r, c>>,
             drawTriangle(Buf(n), p[1], p[2], q[1], q[2], r[1], r[2], c))

FillTriangleOn(n, P, C) ==
    \E p \in P, q \in P, r \in P, c \in C :
        Draw(n, "fillTriangle", <<p, q, r, c>>,
             fillTriangle(Buf(n), p[1], p[2], q[1], q[2], r[1], r[2], c))

BlendPixelOn(n, P, C, A) ==
    \E p \in P, c \in C, al \in A :
        Draw(n, "blendPixel", <<p[1], p[2], c, al>>,
             blendPixel(Buf(n), p[1], p[2], c, al[1], al[2]))

\* this.blit(source, dx, dy, opts) on canvas n with source canvas m
BlitOn(n, m, P, K) ==
    \E d \in P, k \in K :
        /\ cv[m] # 0
        /\ Draw(n, "blit", <<m, d[1], d[2], k>>,
                blit(Buf(n), Buf(m), cv[m] = cv[n], d[1], d[2], k))

GradientVOn(n, C, D) ==
    \E c \in C, d \in D : Draw(n, "gradientV", <<c, d>>, gradientV(Buf(n), c, d))

GradientHOn(n, C, D) ==
    \E c \in C, d \in D : Draw(n, "gradientH", <<c, d>>, gradientH(Buf(n), c, d))

GradientRadialOn(n, P, L, C, D) ==
    \E p \in P, r \in L, c \in C, d \in D :
        Draw(n, "gradientRadial", <<p[1], p[2], r, c, d>>,
             gradientRadial(Buf(n), p[1], p[2], r, c, d))

ScrollOn(n, P) ==
    \E d \in P : Draw(n, "scroll", <<d[1], d[2]>>, scroll(Buf(n), d[1], d[2]))

\* b = a.clone()
Clone ==
    /\ cv["a"] # 0
    /\ cv["b"] = 0
    /\ nops < MaxOps
    /\ LET r == CanvasClone(heap, cv["a"])
       IN  /\ heap' = r.heap
           /\ cv' = [cv EXCEPT !["b"] = r.id]
    /\ origin' = [origin EXCEPT !["b"] = "clone"]
    /\ nops' = nops + 1
    /\ last' = [op |-> "clone", on |-> "a", arg |-> <<>>, pre |-> heap, ret |-> <<>>]
    /\ UNCHANGED <<oob, source, clientVars, anim>>

\* The caller allocates a Uint8Array of some length (part_003:27-36)
AllocSource ==
    \E len \in SourceLens :
        /\ nops < MaxOps
        /\ heap' = Append(heap, Pattern(len, 7))
        /\ source' = Len(heap) + 1
        /\ nops' = nops + 1
        /\ last' = [op |-> "allocSource", on |-> "", arg |-> <<len>>, pre |-> heap,
                    ret |-> <<>>]
        /\ UNCHANGED <<cv, origin, oob, clientVars, anim>>

\* b = new Canvas(source): throws, or builds canvas b (canvas.ts:19-24)
Construct ==
    /\ source # 0
    /\ cv["b"] = 0
    /\ nops < MaxOps
    /\ LET r == CanvasCtor(heap, source)
       IN  /\ heap' = r.heap
           /\ cv' = [cv EXCEPT !["b"] = r.id]
           /\ origin' = [origin EXCEPT !["b"] = IF r.threw THEN "none" ELSE "source"]
           /\ last' = [op |-> "construct", on |-> "b", arg |-> <<source>>, pre |-> heap,
                       ret |-> IF r.threw THEN <<"throws">> ELSE <<"ok">>]
    /\ nops' = nops + 1
    /\ UNCHANGED <<oob, source, clientVars, anim>>

\* The caller stores into its own array: source[i] = v (part_003:27-33)
WriteSource ==
    /\ source # 0
    /\ nops < MaxOps
    /\ \E i \in {1, Len(heap[source])} \cap DOMAIN heap[source], v \in {200, 456} :
          /\ heap' = [heap EXCEPT ![source] = [@ EXCEPT ![i] = ToUint8(v)]]
          /\ last' = [op |-> "writeSource", on |-> "", arg |-> <<i, v>>, pre |-> heap,
                      ret |-> <<>>]
    /\ nops' = nops + 1
    /\ UNCHANGED <<cv, origin, source, oob, clientVars, anim>>

-----------------------------------------------------------------------------
(* Spec: sequences of at most MaxOps pixel and whole-surface operations on *)
(* the canvases a and b, with b built by clone() or from a caller's array  *)

SetPixel == \E n \in Canvases : SetPixelOn(n, PixelCoords \X PixelCoords, PixelColors)
GetPixel == \E n \in Canvases : GetPixelOn(n, PixelCoords \X PixelCoords)
Clear == \E n \in Canvases : ClearOn(n, DrawColors)
Blit == \E n \in Canvases, m \in Canvases : BlitOn(n, m, {-Den, 0, Den} \X {-Den, 0, Den}, {NoKey})
Scroll == \E n \in Canvases : ScrollOn(n, {-Den, Den} \X {-Den, Den})

Next ==
    \/ SetPixel
    \/ GetPixel
    \/ Clear
    \/ Blit
    \/ Scroll
    \/ Clone
    \/ AllocSource
    \/ Construct
    \/ WriteSource

Spec == Init /\ [][Next]_vars

\* The names of the operations that draw on a canvas
DrawOps ==
    {"setPixel", "clear", "fillRect", "fillCircle", "drawRect", "drawCircle",
     "drawLine", "drawLineH", "drawLineV", "drawTriangle", "fillTriangle",
     "blendPixel", "blit", "gradientV", "gradientH", "gradientRadial", "scroll"}

\* floor(x), floor(y) name a pixel of the surface
InSurface(x, y) ==
    /\ Floor(x) \in 0..(DISPLAY_SIZE - 1)
    /\ Floor(y) \in 0..(DISPLAY_SIZE - 1)

\* C1: right after setPixel(x, y, c) at an in-bounds coordinate, with c a
\* triplet, a packed integer, a name or a hex string, getPixel(x, y) returns
\* exactly resolveColor(c).
C1_SetThenGet ==
    (last.op = "setPixel" /\ InSurface(last.arg[1], last.arg[2]))
        => getPixel(Buf(last.on), last.arg[1], last.arg[2]).rgb = resolveColor(last.arg[3])

\* A hex string was just stored at a fractional in-bounds coordinate of the
\* last column and changed the buffer.
C1_Witness ==
    /\ last.op = "setPixel"
    /\ last.arg[1] = DISPLAY_SIZE * Den - 1
    /\ InSurface(last.arg[1], last.arg[2])
    /\ last.arg[3] = Str(<<"#", "0", "0", "f">>)
    /\ heap # last.pre
    /\ nops = MaxOps

\* C2: at a coordinate whose floored x or y is outside [0, size), setPixel
\* leaves every byte of every buffer unchanged and getPixel returns (0,0,0)
\* whatever the buffer holds.
C2_OutsideIsNoOp ==
    /\ (last.op = "setPixel" /\ ~InSurface(last.arg[1], last.arg[2]))
          => heap = last.pre
    /\ (last.op = "getPixel" /\ ~InSurface(last.arg[1], last.arg[2]))
          => last.ret = <<0, 0, 0>>

\* setPixel was just called at x = size on a row of the surface, on a canvas
\* none of whose first three bytes is zero.
C2_Witness ==
    /\ last.op = "setPixel"
    /\ Floor(last.arg[1]) = DISPLAY_SIZE
    /\ Floor(last.arg[2]) = 0
    /\ \A k \in 1..3 : Buf(last.on)[k] # 0

\* C4: new Canvas(source) with a source of the wrong length throws and builds
\* no canvas; with a source of the right length it copies: the canvas starts
\* with the source's bytes, a later store into the source changes no canvas
\* and a later drawing operation changes no byte of the source.
C4_ConstructorCopies ==
    /\ last.op = "construct" =>
          IF Len(last.pre[source]) # BUFFER_SIZE
          THEN last.ret = <<"throws">> /\ cv["b"] = 0 /\ heap = last.pre
          ELSE /\ last.ret = <<"ok">>
               /\ cv["b"] # 0
               /\ Buf("b") = last.pre[source]
               /\ heap[source] = last.pre[source]
    /\ last.op = "writeSource" =>
          \A n \in Canvases : cv[n] # 0 => Buf(n) = last.pre[cv[n]]
    /\ (last.op \in DrawOps /\ source # 0) => heap[source] = last.pre[source]

\* The caller has just overwritten a byte of the array canvas a was built
\* from, and the canvas still holds the old byte.
C4_Witness ==
    /\ last.op = "writeSource"
    /\ origin["a"] = "source"
    /\ source = 1
    /\ heap[source] # last.pre[source]
    /\ Buf("a") # heap[source]

\* C5: clone() yields a canvas with the original's content, and a drawing
\* operation on either of the two changes no byte of the other.
C5_CloneIndependent ==
    /\ last.op = "clone" =>
          /\ cv["b"] # 0
          /\ Buf("b") = last.pre[cv["a"]]
          /\ Buf("a") = last.pre[cv["a"]]
    /\ (last.op \in DrawOps /\ origin["b"] = "clone") =>
          \A n \in Canvases \ {last.on} : Buf(n) = last.pre[cv[n]]

\* A drawing operation on the clone has just changed the clone, which now
\* differs from the original.
C5_Witness ==
    /\ origin["b"] = "clone"
    /\ last.op \in DrawOps
    /\ last.on = "b"
    /\ Buf("b") # last.pre[cv["b"]]
    /\ Buf("b") # Buf("a")

-----------------------------------------------------------------------------
(* SpecDraw: sequences of at most MaxOps drawing operations on canvas a,    *)
(* every one of them with whole-number arguments that are negative, inside *)
(* or beyond the surface; canvas b holds a sprite that blit reads          *)

\* After `b = new Canvas(sprite)` and `a = new Canvas()` or
\* `a = new Canvas(sprite)`
InitDraw ==
    /\ \E s \in {0, 1} :
          LET rb == CanvasCtor(<<SpriteSource>>, 1)
              ra == CanvasCtor(rb.heap, s)
          IN  /\ heap = ra.heap
              /\ cv = [a |-> ra.id, b |-> rb.id]
              /\ origin = [a |-> IF s = 0 THEN "new" ELSE "source", b |-> "source"]
    /\ source = 1
    /\ oob = FALSE
    /\ nops = 0
    /\ last = NoOp
    /\ NoClient
    /\ anim = NoAnimation

SetPixelInt == SetPixelOn("a", DrawSpots, DrawColors)
ClearInt == ClearOn("a", DrawColors)
FillRectInt == FillRectOn("a", DrawSpots, DrawLens, DrawColors)
FillCircleInt == FillCircleOn("a", DrawSpots, DrawLens, DrawColors)
DrawRectInt == DrawRectOn("a", DrawSpots, DrawLens, DrawColors)
DrawCircleInt == DrawCircleOn("a", DrawSpots, DrawLens, DrawColors)
DrawLineInt == DrawLineOn("a", DrawPoints, DrawColors)
DrawLineHInt == DrawLineHOn("a", DrawSpots, DrawLens, DrawColors)
DrawLineVInt == DrawLineVOn("a", DrawSpots, DrawLens, DrawColors)
DrawTriangleInt == DrawTriangleOn("a", DrawPoints, DrawColors)
FillTriangleInt == FillTriangleOn("a", DrawPoints, DrawColors)
BlendPixelInt == BlendPixelOn("a", DrawSpots, DrawColors, DrawAlphas)
BlitInt == \E m \in Canvases : BlitOn("a", m, DrawSpots, BlitKeys)
GradientVInt == GradientVOn("a", DrawColors, FarColors)
GradientHInt == GradientHOn("a", DrawColors, FarColors)
GradientRadialInt == GradientRadialOn("a", DrawSpots, DrawLens, DrawColors, FarColors)
ScrollInt == ScrollOn("a", DrawSpots)

NextDraw ==
    \/ SetPixelInt
    \/ ClearInt
    \/ FillRectInt
    \/ FillCircleInt
    \/ DrawRectInt
    \/ DrawCircleInt
    \/ DrawLineInt
    \/ DrawLineHInt
    \/ DrawLineVInt
    \/ DrawTriangleInt
    \/ FillTriangleInt
    \/ BlendPixelInt
    \/ BlitInt
    \/ GradientVInt
    \/ GradientHInt
    \/ GradientRadialInt
    \/ ScrollInt

SpecDraw == InitDraw /\ [][NextDraw]_vars

\* C3: after any sequence of drawing operations with whole-number
\* arguments, negative and larger than the surface included, every canvas
\* buffer has exactly size*size*3 bytes and no operation has read or written
\* an index outside [0, size*size*3).
C3_BufferInvariant ==
    /\ ~oob
    /\ \A n \in Canvases : cv[n] # 0 => Len(heap[cv[n]]) = BUFFER_SIZE

\* The second operation of a sequence was a fillTriangle with a vertex left
\* of and above the surface and one right of it, and it changed the buffer.
C3_Witness ==
    /\ nops = MaxOps
    /\ last.op = "fillTriangle"
    /\ last.arg[1] = <<-Den, -2 * Den>>
    /\ last.arg[2] = <<(DISPLAY_SIZE + 1) * Den, Den>>
    /\ heap # last.pre

-----------------------------------------------------------------------------
(* SpecRect: one fillRect with fractional arguments on a fresh or          *)
(* pre-filled canvas                                                       *)

FillRectFrac ==
    /\ nops = 0
    /\ FillRectOn("a", RectCoords \X RectCoords, RectLens, DrawColors)

NextRect == FillRectFrac

SpecRect == Init /\ [][NextRect]_vars

\* The three bytes of pixel (px, py) of buffer b
PixelAt(b, px, py) ==
    <<b[(py * DISPLAY_SIZE + px) * 3 + 1], b[(py * DISPLAY_SIZE + px) * 3 + 2],
      b[(py * DISPLAY_SIZE + px) * 3 + 3]>>

\* C10: fillRect(x, y, w, h, color) sets to the resolved color exactly the
\* pixels (px, py) of the surface with floor(x) <= px < floor(x + w) and
\* floor(y) <= py < floor(y + h), and leaves every other pixel as it was; a
\* rectangle with w <= 0 or h <= 0, or fully outside, changes nothing.
C10_FillRectExact ==
    last.op = "fillRect" =>
        LET x == last.arg[1]
            y == last.arg[2]
            w == last.arg[3]
            h == last.arg[4]
        IN  /\ \A px \in 0..(DISPLAY_SIZE - 1), py \in 0..(DISPLAY_SIZE - 1) :
                  PixelAt(Buf(last.on), px, py) =
                      IF /\ Floor(x) <= px /\ px < Floor(x + w)
                         /\ Floor(y) <= py /\ py < Floor(y + h)
                      THEN resolveColor(last.arg[5])
                      ELSE PixelAt(last.pre[cv[last.on]], px, py)
            /\ (w <= 0 \/ h <= 0) => heap = last.pre

\* A rectangle starting left of the surface at a fractional corner and wider
\* than the surface has just been filled on a pre-filled canvas: it is
\* clipped on both sides and covers the second row only.
C10_Witness ==
    /\ last.op = "fillRect"
    /\ last.arg[1] = -Den - 1
    /\ last.arg[2] = Den + 1
    /\ last.arg[3] = (DISPLAY_SIZE + 1) * Den + 1
    /\ last.arg[4] = Den - 1
    /\ origin["a"] = "source"
    /\ PixelAt(Buf("a"), DISPLAY_SIZE - 1, 1) = <<255, 0, 0>>
    /\ PixelAt(Buf("a"), 0, 0) # <<255, 0, 0>>

-----------------------------------------------------------------------------
(* SpecColor: one call of a pure color function                            *)

InitColor ==
    /\ heap = <<>>
    /\ cv = [a |-> 0, b |-> 0]
    /\ origin = [a |-> "none", b |-> "none"]
    /\ source = 0
    /\ oob = FALSE
    /\ nops = 0
    /\ last = NoOp
    /\ NoClient
    /\ anim = NoAnimation

\* A call of the pure function `name` on `args` returning `ret`.  The
\* functions keep no state, so a behaviour is one call.
Call(name, args, ret) ==
    /\ nops' = 1
    /\ last' = [op |-> name, on |-> "", arg |-> args, pre |-> <<>>, ret |-> ret]
    /\ UNCHANGED <<heap, cv, origin, source, oob, clientVars, anim>>

ParseHexStringCall ==
    /\ nops = 0
    /\ \E st \in ColorStrings : Call("parseHexString", <<st>>, parseHexString(st))

ResolveColorCall ==
    /\ nops = 0
    /\ \E c \in ColorLikes : Call("resolveColor", <<c>>, resolveColor(c))

DimColorCall ==
    /\ nops = 0
    /\ \E c \in Triplets(ByteChannels), f \in Factors :
          Call("dimColor", <<c, f>>, dimColor(c, f[1], f[2]))

NextColor ==
    \/ ParseHexStringCall
    \/ ResolveColorCall
    \/ DimColorCall

SpecColor == InitColor /\ [][NextColor]_vars

\* st is, after an optional leading '#', exactly 3 or exactly 6 hex digits
IsHexColorString(st) ==
    LET clean == IF Len(st) > 0 /\ st[1] = "#" THEN Tail(st) ELSE st
    IN  /\ Len(clean) \in {3, 6}
        /\ \A i \in 1..Len(clean) : IsHexDigit(clean[i])

\* C6: parseHexString returns a triplet exactly for a string that is, after
\* an optional leading '#', 3 or 6 hex digits; for any other string it
\* returns the unparseable outcome and never a triplet.
C6_UnparseableIsNoTriplet ==
    last.op = "parseHexString" =>
        (Len(last.ret) = 3 <=> IsHexColorString(last.arg[1]))

\* C7: resolveColor of a string that is neither a known name (compared
\* case-insensitively) nor a valid 3- or 6-digit hex string returns white.
C7_UnknownStringIsWhite ==
    (/\ last.op = "resolveColor"
     /\ last.arg[1].t = "str"
     /\ ToLowerCase(last.arg[1].s) \notin DOMAIN NAMED_COLORS
     /\ ~IsHexColorString(last.arg[1].s))
        => last.ret = <<255, 255, 255>>

\* C8: for every color-like input each channel of the triplet resolveColor
\* returns is an integer in 0..255.
C8_ResolvedChannelsAreBytes ==
    last.op = "resolveColor" => \A i \in 1..3 : last.ret[i] \in 0..255

\* v clamped into [0, 255]
Clamp(v) == Max2(0, Min2(255, v))

\* C9: for every triplet c of bytes and every factor, channel i of
\* dimColor(c, factor) is round(c[i] * factor) clamped into [0, 255].
C9_DimIsClamped ==
    last.op = "dimColor" =>
        \A i \in 1..3 :
            last.ret[i] = Clamp(RoundDiv(last.arg[1][i] * last.arg[2][1], last.arg[2][2]))

-----------------------------------------------------------------------------
(* SpecOp: one blit, scroll or blendPixel on canvas a, blank or pre-filled, *)
(* with canvas b holding a sprite                                          *)

\* After `b = new Canvas(sprite)` and `a = new Canvas()` or
\* `a = new Canvas(pattern)`
InitOp ==
    /\ \E s \in {0, 1} :
          LET rb == CanvasCtor(<<Pattern(BUFFER_SIZE, 7), SpriteSource>>, 2)
              ra == CanvasCtor(rb.heap, s)
          IN  /\ heap = ra.heap
              /\ cv = [a |-> ra.id, b |-> rb.id]
              /\ origin = [a |-> IF s = 0 THEN "new" ELSE "source", b |-> "source"]
    /\ source = 2
    /\ oob = FALSE
    /\ nops = 0
    /\ last = NoOp
    /\ NoClient
    /\ anim = NoAnimation

BlitWhole ==
    /\ nops = 0
    /\ BlitOn("a", "b", WholeOffsets \X WholeOffsets, BlitKeys)

\* The source pixel p is skipped under the option k of blit
Skipped(k, p) ==
    IF k.t = "none" THEN p = <<0, 0, 0>>
    ELSE IF k.t = "null" THEN FALSE
    ELSE p = k.v

\* C11: after this.blit(source, dx, dy, opts) with a distinct source and
\* whole-number offsets, each destination pixel (dx + sx, dy + sy) of the
\* surface holds source pixel (sx, sy) unless that pixel equals the key
\* (black by default, the given triplet, none for null); every other
\* destination pixel and every source pixel is as before.
C11_BlitCopies ==
    (last.op = "blit" /\ last.arg[1] = "b") =>
        LET dx == last.arg[2] \div Den
            dy == last.arg[3] \div Den
            src == last.pre[cv["b"]]
        IN  /\ Buf("b") = src
            /\ \A px \in 0..(DISPLAY_SIZE - 1), py \in 0..(DISPLAY_SIZE - 1) :
                  PixelAt(Buf("a"), px, py) =
                      IF /\ (px - dx) \in 0..(DISPLAY_SIZE - 1)
                         /\ (py - dy) \in 0..(DISPLAY_SIZE - 1)
                         /\ ~Skipped(last.arg[4], PixelAt(src, px - dx, py - dy))
                      THEN PixelAt(src, px - dx, py - dy)
                      ELSE PixelAt(last.pre[cv["a"]], px, py)

\* A blit with transparentColor: null at offset (1, -1) has just copied a
\* black pixel of the sprite, (0, 3), over pixel (1, 2) of a pre-filled
\* canvas.
C11_Witness ==
    /\ last.op = "blit"
    /\ last.arg = <<"b", Den, -Den, NullKey>>
    /\ origin["a"] = "source"
    /\ PixelAt(last.pre[cv["a"]], 1, 2) # <<0, 0, 0>>
    /\ PixelAt(Buf("a"), 1, 2) = <<0, 0, 0>>
    /\ PixelAt(Buf("b"), 0, 3) = <<0, 0, 0>>

ScrollWhole ==
    /\ nops = 0
    /\ ScrollOn("a", WholeOffsets \X WholeOffsets)

\* C12: after scroll(dx, dy) with whole-number dx, dy, pixel (x, y) holds the
\* pixel that was at (x - dx, y - dy) when that is a pixel of the surface and
\* black otherwise; nothing wraps around, and |dx| >= size or |dy| >= size
\* leaves the surface black.
C12_ScrollShifts ==
    last.op = "scroll" =>
        LET dx == last.arg[1] \div Den
            dy == last.arg[2] \div Den
        IN  /\ \A px \in 0..(DISPLAY_SIZE - 1), py \in 0..(DISPLAY_SIZE - 1) :
                  PixelAt(Buf("a"), px, py) =
                      IF /\ (px - dx) \in 0..(DISPLAY_SIZE - 1)
                         /\ (py - dy) \in 0..(DISPLAY_SIZE - 1)
                      THEN PixelAt(last.pre[cv["a"]], px - dx, py - dy)
                      ELSE <<0, 0, 0>>
            /\ (Abs(dx) >= DISPLAY_SIZE \/ Abs(dy) >= DISPLAY_SIZE)
                  => Buf("a") = ZeroBuffer

\* A pre-filled canvas has just been scrolled by (1, -1): its last column
\* and first row were dropped and pixel (0, 0) is black.
C12_Witness ==
    /\ last.op = "scroll"
    /\ last.arg = <<Den, -Den>>
    /\ origin["a"] = "source"
    /\ PixelAt(Buf("a"), 0, 0) = <<0, 0, 0>>
    /\ PixelAt(Buf("a"), 1, 0) = PixelAt(last.pre[cv["a"]], 0, 1)
    /\ PixelAt(Buf("a"), 1, 0) # <<0, 0, 0>>

BlendPixelFrac ==
    /\ nops = 0
    /\ BlendPixelOn("a", PixelCoords \X PixelCoords, PixelColors, BlendAlphas)

\* C13: blendPixel(x, y, color, alpha) changes nothing when alpha <= 0, does
\* what setPixel(x, y, color) does when alpha >= 1, and for 0 < alpha < 1
\* writes round(bg + (fg - bg) * alpha) per channel into the pixel at
\* (floor(x), floor(y)) when it is on the surface; no other pixel changes.
C13_BlendPixel ==
    last.op = "blendPixel" =>
        LET x == last.arg[1]
            y == last.arg[2]
            fg == resolveColor(last.arg[3])
            an == last.arg[4][1]
            ad == last.arg[4][2]
            pre == last.pre[cv["a"]]
        IN  IF an <= 0 THEN heap = last.pre
            ELSE IF an >= ad THEN Buf("a") = setPixel(pre, x, y, last.arg[3]).buf
            ELSE \A px \in 0..(DISPLAY_SIZE - 1), py \in 0..(DISPLAY_SIZE - 1) :
                    PixelAt(Buf("a"), px, py) =
                        IF px = Floor(x) /\ py = Floor(y)
                        THEN [i \in 1..3 |->
                                 RoundDiv(PixelAt(pre, px, py)[i] * ad
                                              + (fg[i] - PixelAt(pre, px, py)[i]) * an,
                                          ad)]
                        ELSE PixelAt(pre, px, py)

\* A packed-integer color has just been blended with alpha 1/3 into the
\* last pixel of the first row of a pre-filled canvas, at a fractional
\* coordinate, and changed it.
C13_Witness ==
    /\ last.op = "blendPixel"
    /\ last.arg = <<DISPLAY_SIZE * Den - 1, 1, Num(65280), <<1, 3>>>>
    /\ origin["a"] = "source"
    /\ PixelAt(Buf("a"), DISPLAY_SIZE - 1, 0) # PixelAt(last.pre[cv["a"]], DISPLAY_SIZE - 1, 0)
    /\ PixelAt(Buf("a"), DISPLAY_SIZE - 1, 0) # <<0, 255, 0>>

NextOp ==
    \/ BlitWhole
    \/ ScrollWhole
    \/ BlendPixelFrac

SpecOp == InitOp /\ [][NextOp]_vars

-----------------------------------------------------------------------------
(* font.ts: bitmap fonts, text measurement and rendering                   *)
(*                                                                         *)
(* letterSpacing and scale are carried as s*Den like coordinates; a width  *)
(* or advance, the product of two of them, is carried as w*Den*Den.  An    *)
(* absent option is <<>> and a given one is <<v>>.                         *)

\* The glyphs of GLYPHS_5x7 for the characters the texts of the model use
\* (font.ts:22-128); rows are bitmasks, most significant used bit leftmost
GLYPHS_5x7 ==
    " " :> <<\b00000, \b00000, \b00000, \b00000, \b00000, \b00000, \b00000>> @@
    "!" :> <<\b00100, \b00100, \b00100, \b00100, \b00100, \b00000, \b00100>> @@
    ")" :> <<\b01000, \b00100, \b00010, \b00010, \b00010, \b00100, \b01000>> @@
    "?" :> <<\b01110, \b10001, \b00001, \b00010, \b00100, \b00000, \b00100>> @@
    "A" :> <<\b01110, \b10001, \b10001, \b11111, \b10001, \b10001, \b10001>> @@
    "a" :> <<\b00000, \b00000, \b01110, \b00001, \b01111, \b10001, \b01111>>

FONT_5x7 == [width |-> 5, height |-> 7, glyphs |-> GLYPHS_5x7]

\* The glyphs of GLYPHS_3x5 for the characters the texts of the model use
\* (font.ts:138-185): the table has no lowercase letters and no '?'
GLYPHS_3x5 ==
    " " :> <<\b000, \b000, \b000, \b000, \b000>> @@
    "!" :> <<\b010, \b010, \b010, \b000, \b010>> @@
    ")" :> <<\b010, \b001, \b001, \b001, \b010>> @@
    "A" :> <<\b010, \b101, \b111, \b101, \b101>>

FONT_3x5 == [width |-> 3, height |-> 5, glyphs |-> GLYPHS_3x5]

\* A BitmapFont of a caller: no space glyph, a '?' narrower than the font,
\* a lowercase letter without its uppercase
CallerFont ==
    [width |-> 3, height |-> 2,
     glyphs |-> ("?" :> <<\b010, \b011>> @@ "a" :> <<\b111, \b101>>)]

\* `undefined` where a glyph or a font is expected
NoGlyph == <<>>
NoFont == [width |-> 0, height |-> 0, glyphs |-> [ch \in {} |-> NoGlyph]]

\* font.glyphs[ch]
GlyphOf(font, ch) ==
    IF ch \in DOMAIN font.glyphs THEN font.glyphs[ch] ELSE NoGlyph

\* TextOptions (font.ts:198-204)
TextOptions(font, letterSpacing, scale) ==
    [font |-> font, letterSpacing |-> letterSpacing, scale |-> scale]

\* v ?? d
OrDefault(v, d) == IF v = <<>> THEN d ELSE v[1]
FontOrDefault(opts) == IF opts.font = NoFont THEN FONT_5x7 ELSE opts.font

RECURSIVE BitLength(_)
\* Math.floor(Math.log2(row)) + 1 for an integer row > 0
BitLength(row) == IF row <= 0 THEN 0 ELSE 1 + BitLength(row \div 2)

RECURSIVE MaxBits(_, _, _)
\* The loop of glyphWidth from row k on (font.ts:208-214)
MaxBits(glyph, k, maxBit) ==
    IF k > Len(glyph) THEN maxBit
    ELSE MaxBits(glyph, k + 1,
                 IF glyph[k] > 0 /\ BitLength(glyph[k]) > maxBit
                 THEN BitLength(glyph[k]) ELSE maxBit)

\* glyphWidth (font.ts:207-216), in pixels
glyphWidth(font, ch, glyph) ==
    Max2(MaxBits(glyph, 1, 0), IF ch = " " THEN font.width ELSE 1)

\* String.prototype.toUpperCase on the letters a-z
UpperOf == [c \in {LowerOf[u] : u \in DOMAIN LowerOf} |->
               CHOOSE u \in DOMAIN LowerOf : LowerOf[u] = c]

\* ch >= 'a' && ch <= 'z' for a one-character string
IsLowerLetter(ch) == ch \in DOMAIN UpperOf

\* resolveGlyph that gives up without the '?' glyph
resolveGlyphNoFallback(font, ch) ==
    LET own == GlyphOf(font, ch)
    IN  IF own = NoGlyph /\ IsLowerLetter(ch) /\ GlyphOf(font, UpperOf[ch]) # NoGlyph
        THEN [ch |-> UpperOf[ch], glyph |-> GlyphOf(font, UpperOf[ch])]
        ELSE [ch |-> ch, glyph |-> own]

\* resolveGlyph (font.ts:219-230)
resolveGlyph(font, ch) ==
    LET own == GlyphOf(font, ch)
    IN  IF own = NoGlyph /\ IsLowerLetter(ch) /\ GlyphOf(font, UpperOf[ch]) # NoGlyph
        THEN [ch |-> UpperOf[ch], glyph |-> GlyphOf(font, UpperOf[ch])]
        ELSE [ch |-> ch,
              glyph |-> IF own # NoGlyph THEN own ELSE GlyphOf(font, "?")]

\* The advance of the cursor over the character ch (font.ts:240-245 and
\* 268-272, 293), in units of 1/(Den*Den)
Advance(font, ch, spacing, scale) ==
    LET r == resolveGlyph(font, ch)
    IN  IF r.glyph = NoGlyph THEN (font.width * Den + spacing) * scale
        ELSE (glyphWidth(font, r.ch, r.glyph) * Den + spacing) * scale

RECURSIVE MeasureLoop(_, _, _, _, _, _)
\* The loop of measureText from character i on (font.ts:238-246)
MeasureLoop(font, text, spacing, scale, i, width) ==
    IF i > Len(text) THEN width
    ELSE MeasureLoop(font, text, spacing, scale, i + 1,
                     width + Advance(font, text[i], spacing, scale))

\* measureText that keeps the trailing spacing
measureTextUntrimmed(text, opts) ==
    MeasureLoop(FontOrDefault(opts), text, OrDefault(opts.letterSpacing, Den),
                OrDefault(opts.scale, Den), 1, 0)

\* measureText (font.ts:233-249); the width in units of 1/(Den*Den)
measureText(text, opts) ==
    LET font == FontOrDefault(opts)
        spacing == OrDefault(opts.letterSpacing, Den)
        scale == OrDefault(opts.scale, Den)
        width == MeasureLoop(font, text, spacing, scale, 1, 0)
    IN  IF Len(text) > 0 THEN width - spacing * scale ELSE width


\* (row >> n) & 1 for an integer row >= 0
BitAt(row, n) == (row \div (2 ^ n)) % 2

\* The pixels the glyph loop of drawText sets for one glyph whose cell
\* starts at (cx, cy), both in units of 1/(Den*Den); scale in units of
\* 1/Den; the pixels in units of 1/Den (font.ts:276-291)
GlyphPixels(font, glyph, cx, cy, scale) ==
    LET Steps == {s \in 0..CeilDiv(scale, Den) : s * Den < scale}
        Cells == {c \in (0..(font.width - 1)) \X (0..(font.height - 1)) :
                     BitAt(glyph[c[2] + 1], font.width - 1 - c[1]) = 1}
    IN  {<<FloorDiv(cx + c[1] * scale * Den + sx * Den * Den, Den),
           FloorDiv(cy + c[2] * scale * Den + sy * Den * Den, Den)>> :
            c \in Cells, sx \in Steps, sy \in Steps}

RECURSIVE DrawTextLoop(_, _, _, _, _, _, _, _)
\* The loop of drawText from character i on with the cursor at cx
\* (font.ts:266-294): the pixels set and the final cursor
DrawTextLoop(font, text, y, spacing, scale, i, cx, pts) ==
    IF i > Len(text) THEN [cx |-> cx, pts |-> pts]
    ELSE LET r == resolveGlyph(font, text[i])
         IN  IF r.glyph = NoGlyph
             THEN DrawTextLoop(font, text, y, spacing, scale, i + 1,
                               cx + (font.width * Den + spacing) * scale, pts)
             ELSE DrawTextLoop(font, text, y, spacing, scale, i + 1,
                               cx + (glyphWidth(font, r.ch, r.glyph) * Den + spacing) * scale,
                               pts \cup GlyphPixels(font, r.glyph, cx, y * Den, scale))

\* The result of drawText: the buffer it leaves, whether it indexed the
\* buffer outside its elements, and the number it returns
TextResult(r, ret) == [buf |-> r.buf, bad |-> r.bad, ret |-> ret]

\* drawText that returns the width without the trailing spacing
drawTextTight(b, text, x, y, color, opts) ==
    LET spacing == OrDefault(opts.letterSpacing, Den)
        scale == OrDefault(opts.scale, Den)
        loop == DrawTextLoop(FontOrDefault(opts), text, y, spacing, scale, 1, x * Den, {})
    IN  TextResult(SetPixels(b, loop.pts, RGBOf(resolveColor(color))),
                   IF Len(text) > 0 THEN loop.cx - x * Den - spacing * scale ELSE 0)

\* drawText (font.ts:252-297); x, y in units of 1/Den, the advance it
\* returns in units of 1/(Den*Den)
drawText(b, text, x, y, color, opts) ==
    LET font == FontOrDefault(opts)
        spacing == OrDefault(opts.letterSpacing, Den)
        scale == OrDefault(opts.scale, Den)
        loop == DrawTextLoop(font, text, y, spacing, scale, 1, x * Den, {})
    IN  TextResult(SetPixels(b, loop.pts, RGBOf(resolveColor(color))),
                   loop.cx - x * Den)

\* Inputs of the text functions

\* Longest text given to measureText; drawText gets the texts one shorter
MaxTextLen == 3

\* A space, a character with glyphs in both built-in fonts, the fallback
\* character, an uppercase and a lowercase letter, and a control character
\* that no font has
TextChars == {" ", "!", "?", "A", "a", "\t"}
Texts(n) == UNION {[1..k -> TextChars] : k \in 0..n}

TextFonts == {NoFont, FONT_5x7, FONT_3x5, CallerFont}
\* letterSpacing in units of 1/Den: absent, 0, 1/Den, -1 and 3
TextSpacings == {<<>>, <<0>>, <<1>>, <<-Den>>, <<3 * Den>>}
\* scale in units of 1/Den: absent, 0, 1/Den, 1 + 1/Den and 2
TextScales == {<<>>, <<0>>, <<1>>, <<Den + 1>>, <<2 * Den>>}
TextOptionSets ==
    {TextOptions(f, s, k) : f \in TextFonts, s \in TextSpacings, k \in TextScales}
\* Positions of drawText in units of 1/Den: the corner, left of and above
\* the surface, a fractional position, and right of the surface
TextSpots == {<<0, 0>>, <<-3 * Den, -Den>>, <<1, Den>>, <<DISPLAY_SIZE * Den, 0>>}

-----------------------------------------------------------------------------
(* SpecText: one call of measureText or of drawText                        *)

MeasureTextCall ==
    /\ nops = 0
    /\ \E text \in Texts(MaxTextLen), opts \in TextOptionSets :
          Call("measureText", <<text, opts>>, measureText(text, opts))

DrawTextCall ==
    /\ nops = 0
    /\ \E text \in Texts(MaxTextLen - 1), p \in TextSpots, opts \in TextOptionSets :
          LET r == drawText(Buf("a"), text, p[1], p[2], RGBc(255, 0, 0), opts)
          IN  /\ heap' = [heap EXCEPT ![cv["a"]] = r.buf]
              /\ oob' = (oob \/ r.bad)
              /\ nops' = 1
              /\ last' = [op |-> "drawText", on |-> "a",
                          arg |-> <<text, p[1], p[2], opts>>,
                          pre |-> heap, ret |-> r.ret]
              /\ UNCHANGED <<cv, origin, source, clientVars, anim>>

NextText ==
    \/ MeasureTextCall
    \/ DrawTextCall

SpecText == InitOp /\ [][NextText]_vars


\* The width the character ch counts in a text: the full width of the font
\* for a space and for a character that resolves to no glyph, else the
\* glyphWidth of the glyph it resolves to
CountedWidth(font, ch) ==
    LET r == resolveGlyph(font, ch)
    IN  IF ch = " " \/ r.glyph = NoGlyph THEN font.width
        ELSE glyphWidth(font, r.ch, r.glyph)

RECURSIVE SumOfAdvances(_, _, _, _)
\* Sum over the characters of text of (width + letterSpacing) * scale
SumOfAdvances(font, text, spacing, scale) ==
    IF text = <<>> THEN 0
    ELSE (CountedWidth(font, Head(text)) * Den + spacing) * scale
         + SumOfAdvances(font, Tail(text), spacing, scale)

\* C14: measureText returns 0 for the empty text and otherwise the sum over
\* the characters of (glyphWidth + letterSpacing) * scale minus one
\* letterSpacing * scale, a space counting the full width of the font; and
\* the width at scale k is k times the width at scale 1.
C14_MeasureIsSum ==
    last.op = "measureText" =>
        LET text == last.arg[1]
            opts == last.arg[2]
            font == FontOrDefault(opts)
            spacing == OrDefault(opts.letterSpacing, Den)
            scale == OrDefault(opts.scale, Den)
        IN  /\ text = <<>> => last.ret = 0
            /\ text # <<>> =>
                  last.ret = SumOfAdvances(font, text, spacing, scale) - spacing * scale
            /\ last.ret * Den =
                  scale * measureText(text, TextOptions(opts.font, opts.letterSpacing, <<Den>>))

\* A text of three characters with a space and a fallback character has been
\* measured in the compact font at scale 2 with a spacing of 3
C14_Witness ==
    /\ last.op = "measureText"
    /\ Len(last.arg[1]) = 3
    /\ \E i \in 1..3 : last.arg[1][i] = " "
    /\ \E i \in 1..3 : last.arg[1][i] = "a"
    /\ last.arg[2].font = FONT_3x5
    /\ last.arg[2].scale = <<2 * Den>>
    /\ last.arg[2].letterSpacing = <<3 * Den>>
    /\ last.ret > 0


\* C15: drawText returns 0 for the empty text and otherwise
\* measureText(text, opts) + letterSpacing * scale, wherever the text is
\* drawn and whatever part of it the surface clips.
C15_DrawReturnsAdvance ==
    last.op = "drawText" =>
        LET text == last.arg[1]
            opts == last.arg[4]
            spacing == OrDefault(opts.letterSpacing, Den)
            scale == OrDefault(opts.scale, Den)
        IN  last.ret = IF text = <<>> THEN 0
                       ELSE measureText(text, opts) + spacing * scale

\* A text of two characters has been drawn right of the surface, where every
\* pixel of it is clipped, with a spacing and a scale that are not the
\* defaults, and drawText returned a positive advance
C15_Witness ==
    /\ last.op = "drawText"
    /\ Len(last.arg[1]) = 2
    /\ last.arg[2] = DISPLAY_SIZE * Den
    /\ last.arg[4].letterSpacing = <<3 * Den>>
    /\ last.arg[4].scale = <<2 * Den>>
    /\ heap = last.pre
    /\ last.ret > 0


\* The font has a glyph for ch itself or, ch being a letter a-z, for its
\* uppercase form
HasGlyph(font, ch) ==
    \/ GlyphOf(font, ch) # NoGlyph
    \/ IsLowerLetter(ch) /\ GlyphOf(font, UpperOf[ch]) # NoGlyph

\* The glyph the character ch stands for: its own, else that of its
\* uppercase form, else that of '?'
GlyphFor(font, ch) ==
    IF GlyphOf(font, ch) # NoGlyph THEN GlyphOf(font, ch)
    ELSE IF IsLowerLetter(ch) /\ GlyphOf(font, UpperOf[ch]) # NoGlyph
         THEN GlyphOf(font, UpperOf[ch])
    ELSE GlyphOf(font, "?")

\* The text with '?' in the place of every character of the set Chars that
\* has no glyph
WithFallback(font, text, Chars) ==
    [i \in 1..Len(text) |->
        IF text[i] \in Chars /\ ~HasGlyph(font, text[i]) THEN "?" ELSE text[i]]

\* measureText and drawText resolve every character of the text to
\* GlyphFor, and the call gave what the same call gives on the text with '?'
\* for the characters of Chars without a glyph
SameAsFallback(Chars) ==
    /\ last.op = "measureText" =>
          LET text == last.arg[1]
              font == FontOrDefault(last.arg[2])
          IN  /\ \A i \in 1..Len(text) :
                    resolveGlyph(font, text[i]).glyph = GlyphFor(font, text[i])
              /\ last.ret = measureText(WithFallback(font, text, Chars), last.arg[2])
    /\ last.op = "drawText" =>
          LET text == last.arg[1]
              font == FontOrDefault(last.arg[4])
              r == drawText(last.pre[cv[last.on]], WithFallback(font, text, Chars),
                            last.arg[2], last.arg[3], RGBc(255, 0, 0), last.arg[4])
          IN  /\ \A i \in 1..Len(text) :
                    resolveGlyph(font, text[i]).glyph = GlyphFor(font, text[i])
              /\ heap[cv[last.on]] = r.buf
              /\ last.ret = r.ret

-----------------------------------------------------------------------------
(* svg-path.ts: the interpreter of path commands                           *)
(*                                                                         *)
(* A path is carried as the token list tokenize yields for it: the command *)
(* letters with their numeric arguments.  A coordinate is <<n>> for the    *)
(* number n, NaN, or Missing for `undefined` (an argument that is absent). *)

Missing == <<0, 0>>

IsNumber(v) == Len(v) = 1

\* args[i] of a token, i counted from 0
ArgAt(args, i) == IF i >= 0 /\ i < Len(args) THEN <<args[i + 1]>> ELSE Missing

\* a + b of JavaScript numbers, NaN and undefined
Plus(a, b) == IF IsNumber(a) /\ IsNumber(b) THEN <<a[1] + b[1]>> ELSE NaN

\* { cmd, args } (svg-path.ts:18, 35)
Token(cmd, args) == [cmd |-> cmd, args |-> args]

\* The variables of parseSvgPath before the first token (svg-path.ts:43-49)
PathStart ==
    [points |-> <<>>, cx |-> <<0>>, cy |-> <<0>>,
     subpathStartX |-> <<0>>, subpathStartY |-> <<0>>]

\* cx = x; cy = y; points.push({ x: cx, y: cy })
LineTo(st, x, y) ==
    [st EXCEPT !.cx = x, !.cy = y, !.points = Append(@, <<x, y>>)]

RECURSIVE EndpointLoopThroughControl(_, _, _, _, _)
\* An endpoint loop that also draws to the first pair of each group of more
\* than 2 arguments (the first control point of a curve)
EndpointLoopThroughControl(st, args, i, n, relative) ==
    IF ~(i + n - 1 < Len(args)) THEN st
    ELSE LET x == ArgAt(args, i + n - 2)
             y == ArgAt(args, i + n - 1)
             via == IF n > 2 THEN LineTo(st, ArgAt(args, i), ArgAt(args, i + 1)) ELSE st
         IN  EndpointLoopThroughControl(
                 IF relative THEN LineTo(via, Plus(st.cx, x), Plus(st.cy, y))
                 ELSE LineTo(via, x, y),
                 args, i + n, n, relative)

RECURSIVE EndpointLoop(_, _, _, _, _)
\* for (; i + n - 1 < args.length; i += n): a line to the last pair of each
\* complete group of n arguments, absolute or relative to the current point
\* (svg-path.ts:59-63, 72-76, 78-89, 125-196)
EndpointLoop(st, args, i, n, relative) ==
    IF ~(i + n - 1 < Len(args)) THEN st
    ELSE LET x == ArgAt(args, i + n - 2)
             y == ArgAt(args, i + n - 1)
         IN  EndpointLoop(IF relative THEN LineTo(st, Plus(st.cx, x), Plus(st.cy, y))
                          ELSE LineTo(st, x, y),
                          args, i + n, n, relative)

RECURSIVE AxisLoop(_, _, _, _, _)
\* for (const a of args): H, h, V and v (svg-path.ts:91-114)
AxisLoop(st, args, k, horizontal, relative) ==
    IF k > Len(args) THEN st
    ELSE LET a == <<args[k]>>
             x == IF ~horizontal THEN st.cx
                  ELSE IF relative THEN Plus(st.cx, a) ELSE a
             y == IF horizontal THEN st.cy
                  ELSE IF relative THEN Plus(st.cy, a) ELSE a
         IN  AxisLoop(LineTo(st, x, y), args, k + 1, horizontal, relative)

\* case 'M' and case 'm' up to the loop of the implicit lineTo
\* (svg-path.ts:53-57, 66-70)
MoveTo(st, args, relative) ==
    LET x == IF relative THEN Plus(st.cx, ArgAt(args, 0)) ELSE ArgAt(args, 0)
        y == IF relative THEN Plus(st.cy, ArgAt(args, 1)) ELSE ArgAt(args, 1)
    IN  [LineTo(st, x, y) EXCEPT !.subpathStartX = x, !.subpathStartY = y]

\* closePath that returns to the first point of the whole path
closePathToFirst(st) ==
    IF Len(st.points) > 0
    THEN LineTo(st, st.points[1][1], st.points[1][2])
    ELSE st

\* case 'Z' and case 'z' (svg-path.ts:115-122)
closePath(st) ==
    IF Len(st.points) > 0
    THEN LineTo(st, st.subpathStartX, st.subpathStartY)
    ELSE st

\* The body of the loop of parseSvgPath for one token (svg-path.ts:51-201)
Interpret(st, tok) ==
    LET cmd == tok.cmd
        args == tok.args
    IN  CASE cmd = "M" -> EndpointLoop(MoveTo(st, args, FALSE), args, 2, 2, FALSE)
          [] cmd = "m" -> EndpointLoop(MoveTo(st, args, TRUE), args, 2, 2, TRUE)
          [] cmd \in {"L", "T"} -> EndpointLoop(st, args, 0, 2, FALSE)
          [] cmd \in {"l", "t"} -> EndpointLoop(st, args, 0, 2, TRUE)
          [] cmd = "H" -> AxisLoop(st, args, 1, TRUE, FALSE)
          [] cmd = "h" -> AxisLoop(st, args, 1, TRUE, TRUE)
          [] cmd = "V" -> AxisLoop(st, args, 1, FALSE, FALSE)
          [] cmd = "v" -> AxisLoop(st, args, 1, FALSE, TRUE)
          [] cmd \in {"Z", "z"} -> closePath(st)
          [] cmd = "C" -> EndpointLoop(st, args, 0, 6, FALSE)
          [] cmd = "c" -> EndpointLoop(st, args, 0, 6, TRUE)
          [] cmd \in {"Q", "S"} -> EndpointLoop(st, args, 0, 4, FALSE)
          [] cmd \in {"q", "s"} -> EndpointLoop(st, args, 0, 4, TRUE)
          [] cmd = "A" -> EndpointLoop(st, args, 0, 7, FALSE)
          [] cmd = "a" -> EndpointLoop(st, args, 0, 7, TRUE)
          [] OTHER -> st

RECURSIVE InterpretAll(_, _, _)
\* The loop of parseSvgPath from token k on (svg-path.ts:50-202)
InterpretAll(st, tokens, k) ==
    IF k > Len(tokens) THEN st
    ELSE InterpretAll(Interpret(st, tokens[k]), tokens, k + 1)

\* parseSvgPath (svg-path.ts:41-204) on the tokens of the path
parseSvgPath(tokens) == InterpretAll(PathStart, tokens, 1).points

\* Inputs of the path interpreter

\* Longest path, in tokens
MaxTokens == 4

\* Moves with one pair, with an implicit lineTo and without arguments, lines,
\* both close-path letters and a curve with a complete group of arguments
PathTokens ==
    {Token("M", <<1, 1>>), Token("M", <<3, 0, 2, 2>>), Token("M", <<>>),
     Token("m", <<1, 2>>), Token("L", <<0, 2>>), Token("l", <<1, 0, 5>>),
     Token("h", <<3>>), Token("V", <<4>>), Token("Z", <<>>), Token("z", <<>>),
     Token("C", <<0, 0, 1, 1, 2, 3>>)}
Paths == UNION {[1..k -> PathTokens] : k \in 0..MaxTokens}

-----------------------------------------------------------------------------
(* SpecPath: one call of parseSvgPath                                      *)

ParseSvgPathCall ==
    /\ nops = 0
    /\ \E tokens \in Paths : Call("parseSvgPath", <<tokens>>, parseSvgPath(tokens))

SpecPath == InitColor /\ [][ParseSvgPathCall]_vars

\* The variables of parseSvgPath after the first k tokens
After(tokens, k) == InterpretAll(PathStart, SubSeq(tokens, 1, k), 1)

\* The index of the last move command among the first k tokens, 0 if none
LastMove(tokens, k) ==
    LET Moves == {j \in 1..k : tokens[j].cmd \in {"M", "m"}}
    IN  IF Moves = {} THEN 0 ELSE CHOOSE j \in Moves : \A i \in Moves : i <= j

\* C17: every close-path command (Z or z) that comes after at least one
\* point appends one point, equal to the point that the most recent move
\* command (M or m) set, and makes it the current point.
C17_ClosePathToSubpathStart ==
    last.op = "parseSvgPath" =>
        LET tokens == last.arg[1]
        IN  \A k \in 1..Len(tokens) :
                LET before == After(tokens, k - 1)
                    after == After(tokens, k)
                    j == LastMove(tokens, k - 1)
                    start == After(tokens, j).points[Len(After(tokens, j - 1).points) + 1]
                IN  (tokens[k].cmd \in {"Z", "z"} /\ Len(before.points) > 0 /\ j > 0) =>
                        /\ after.points = Append(before.points, start)
                        /\ <<after.cx, after.cy>> = start
                        /\ SubSeq(last.ret, 1, Len(after.points)) = after.points

\* A path with two subpaths has been parsed whose second subpath starts
\* elsewhere than the first and ends in a close-path command
C17_Witness ==
    /\ last.op = "parseSvgPath"
    /\ last.arg[1] = <<Token("M", <<1, 1>>), Token("L", <<0, 2>>),
                       Token("M", <<3, 0, 2, 2>>), Token("z", <<>>)>>
    /\ last.ret = << <<<<1>>, <<1>>>>, <<<<0>>, <<2>>>>, <<<<3>>, <<0>>>>,
                     <<<<2>>, <<2>>>>, <<<<3>>, <<0>>>> >>

-----------------------------------------------------------------------------
(* PixooClient (font.ts:364-583): send, push and pushAnimation             *)
(*                                                                         *)
(* A call of an async method is a record of `calls` that tells where the   *)
(* call stands: awaiting a fetch ("fetch"), awaiting the timer of a retry  *)
(* ("delay") or settled ("done").  A step of a call runs from one await to *)
(* the next.  `log` is the sequence of requests handed to fetch, each with *)
(* the outcome it got.                                                     *)

\* PixooResponse (font.ts:318-321)
PixooResponse(code, message) == [error_code |-> code, message |-> message]

\* { error_code: -1, message: 'No attempts made' } (font.ts:386)
NoAttemptsMade == PixooResponse(-1, "No attempts made")

\* What a fetch can come to: an ok response with a JSON body, an ok response
\* whose body is no JSON, a response with a status that is not ok, a network
\* error, the abort of the timeout, and a rejection with a value that is no
\* Error
OkBody(resp) == [kind |-> "ok", body |-> resp]
Failure(kind) == [kind |-> kind, body |-> PixooResponse(-1, "")]
Pending == Failure("pending")

\* The lastError that send keeps for a failed attempt (font.ts:398-416)
ErrorOf(outcome) ==
    CASE outcome.kind = "status" -> PixooResponse(-1, "HTTP 500 Error")
      [] outcome.kind = "timeout" -> PixooResponse(-1, "Request timed out")
      [] outcome.kind = "network" -> PixooResponse(-1, "ECONNREFUSED")
      [] outcome.kind = "badjson" -> PixooResponse(-1, "Unexpected token")
      [] OTHER -> PixooResponse(-1, "Unknown error")

\* A call of send, push or pushAnimation before its first statement
NewCall(kind, n, serializable) ==
    [kind |-> kind, n |-> n, serializable |-> serializable,
     stage |-> "", i |-> 0, usedId |-> 0, attempt |-> 0,
     lastError |-> NoAttemptsMade, lastResponse |-> PixooResponse(-1, ""),
     pc |-> "start", ret |-> PixooResponse(-1, ""), rejected |-> FALSE]

\* The body that send hands to fetch (font.ts:385, 395-400): the command
\* and, for Draw/SendHttpGif, PicNum, PicOffset and PicID
Request(id, c) ==
    [call |-> id,
     cmd |-> CASE c.stage = "raw" -> "Channel/GetAllConf"
               [] c.stage = "frame" -> "Draw/SendHttpGif"
               [] OTHER -> "Draw/ResetHttpGifId",
     PicNum |-> IF c.stage = "frame" THEN c.n ELSE -1,
     PicOffset |-> IF c.stage = "frame" THEN c.i ELSE -1,
     PicID |-> IF c.stage = "frame" THEN c.usedId ELSE -1,
     attempt |-> c.attempt,
     outcome |-> Pending]

\* The state a step of call `id` works on: the call, this.picId, the log
Machine(id, c, p, l) == [id |-> id, c |-> c, picId |-> p, log |-> l]

\* The call settles with the value v
Return(m, v) == [m EXCEPT !.c.pc = "done", !.c.ret = v]

\* fetch(this.url, ...) (font.ts:395-400)
Fetch(m) ==
    [m EXCEPT !.c.pc = "fetch", !.log = Append(@, Request(m.id, m.c))]

RECURSIVE Loop(_, _), SendReturns(_, _, _), InvokeSend(_, _, _), FrameLoop(_, _)

\* send that gives up after its first attempt
LoopOnce(m, r) ==
    IF m.c.attempt <= r /\ m.c.attempt = 0 THEN Fetch(m)
    ELSE SendReturns(m, r, m.c.lastError)

\* The head of the loop of send (font.ts:388-391): another attempt, after
\* the delay if it is a retry, or `return lastError` (font.ts:425)
Loop(m, r) ==
    IF m.c.attempt <= r
    THEN IF m.c.attempt > 0 THEN [m EXCEPT !.c.pc = "delay"] ELSE Fetch(m)
    ELSE SendReturns(m, r, m.c.lastError)

\* this.send(...) up to its first await (font.ts:384-388)
InvokeSend(m, r, stage) ==
    Loop([m EXCEPT !.c.stage = stage, !.c.attempt = 0,
                   !.c.lastError = NoAttemptsMade], r)

\* The head of the loop of pushAnimation (font.ts:461-470, 475)
FrameLoop(m, r) ==
    IF m.c.i < m.c.n
    THEN InvokeSend([m EXCEPT !.c.usedId = m.picId], r, "frame")
    ELSE Return(m, m.c.lastResponse)

\* A caller of send that counts this.picId up without wrapping at 10000
SendReturnsUnwrapped(m, r, v) ==
    CASE m.c.stage = "raw" -> Return(m, v)
      [] m.c.stage = "reset" ->
            LET next == m.picId + 1
                m1 == [m EXCEPT !.picId = next, !.c.i = 0,
                                !.c.lastResponse = PixooResponse(-1, "")]
            IN  IF m.c.kind = "push"
                THEN InvokeSend([m1 EXCEPT !.c.usedId = next], r, "frame")
                ELSE FrameLoop(m1, r)
      [] m.c.stage = "frame" ->
            IF m.c.kind = "push" THEN Return(m, v)
            ELSE IF v.error_code # 0
                 THEN InvokeSend([m EXCEPT !.c.lastResponse = v], r, "cleanup")
                 ELSE FrameLoop([m EXCEPT !.c.lastResponse = v, !.c.i = @ + 1], r)
      [] OTHER -> Return(m, m.c.lastResponse)

\* What the caller of send does with the value v that send resolves to
\* (font.ts:431-433, 437-447, 458-475)
SendReturns(m, r, v) ==
    CASE m.c.stage = "raw" -> Return(m, v)
      [] m.c.stage = "reset" ->
            LET next == (m.picId + 1) % 10000
                m1 == [m EXCEPT !.picId = next, !.c.i = 0,
                                !.c.lastResponse = PixooResponse(-1, "")]
            IN  IF m.c.kind = "push"
                THEN InvokeSend([m1 EXCEPT !.c.usedId = next], r, "frame")
                ELSE FrameLoop(m1, r)
      [] m.c.stage = "frame" ->
            IF m.c.kind = "push" THEN Return(m, v)
            ELSE IF v.error_code # 0
                 THEN InvokeSend([m EXCEPT !.c.lastResponse = v], r, "cleanup")
                 ELSE FrameLoop([m EXCEPT !.c.lastResponse = v, !.c.i = @ + 1], r)
      [] OTHER -> Return(m, m.c.lastResponse)

\* push and pushAnimation without their resetGifId
BeginWithoutReset(m, r) ==
    CASE m.c.kind = "send" ->
            IF m.c.serializable THEN InvokeSend(m, r, "raw")
            ELSE [m EXCEPT !.c.pc = "done", !.c.rejected = TRUE]
      [] m.c.kind = "pushAnimation" /\ m.c.n = 0 ->
            Return(m, PixooResponse(-1, "No frames provided"))
      [] OTHER -> SendReturns([m EXCEPT !.c.stage = "reset"], r, NoAttemptsMade)

\* The call from its first statement to its first await: send
\* (font.ts:384-388), push (font.ts:436-437), pushAnimation (font.ts:454-458)
Begin(m, r) ==
    CASE m.c.kind = "send" ->
            IF m.c.serializable THEN InvokeSend(m, r, "raw")
            ELSE [m EXCEPT !.c.pc = "done", !.c.rejected = TRUE]
      [] m.c.kind = "pushAnimation" /\ m.c.n = 0 ->
            Return(m, PixooResponse(-1, "No frames provided"))
      [] OTHER -> InvokeSend(m, r, "reset")

\* The fetch of the call is over with `outcome` (font.ts:401-423)
Settle(m, r, outcome) ==
    LET k == CHOOSE j \in 1..Len(m.log) :
                 m.log[j].call = m.id /\ m.log[j].outcome = Pending
        m1 == [m EXCEPT !.log[k].outcome = outcome]
    IN  IF outcome.kind = "ok" THEN SendReturns(m1, r, outcome.body)
        ELSE Loop([m1 EXCEPT !.c.lastError = ErrorOf(outcome),
                             !.c.attempt = @ + 1], r)


\* Inputs of the client

\* Most calls started on one client
MaxCalls == 2
\* Most frames given to pushAnimation
MaxFrames == 2

\* Bodies of the device: success and an error of its own
DeviceBodies == {PixooResponse(0, ""), PixooResponse(1, "")}
SendOutcomes ==
    {OkBody(b) : b \in DeviceBodies}
    \cup {Failure(k) : k \in {"badjson", "status", "network", "timeout", "unknown"}}
PushOutcomes == {OkBody(b) : b \in DeviceBodies} \cup {Failure("network")}
\* The retries option: negative, none, the default 1, and 2
SendRetries == {-1, 0, 1, 2}
PushRetries == {0, 1}
\* Date.now() % 10000 at construction: the ends of the range
StartIds == {0, 9999}

\* After `new PixooClient(ip, { retries })` (font.ts:370-381)
NewClient(R, P) ==
    /\ heap = <<>>
    /\ cv = [a |-> 0, b |-> 0]
    /\ origin = [a |-> "none", b |-> "none"]
    /\ source = 0
    /\ oob = FALSE
    /\ nops = 0
    /\ last = NoOp
    /\ anim = NoAnimation
    /\ retries \in R
    /\ picId \in P
    /\ calls = <<>>
    /\ log = <<>>

\* The client is left as the machine m of call id has it
Becomes(id, m) ==
    /\ calls' = [k \in 1..Max2(Len(calls), id) |-> IF k = id THEN m.c ELSE calls[k]]
    /\ picId' = m.picId
    /\ log' = m.log
    /\ UNCHANGED <<heap, cv, origin, source, oob, nops, last, retries, anim>>

\* A caller starts the call c while fewer than `limit` calls were started
Start(c, limit) ==
    /\ Len(calls) < limit
    /\ Becomes(Len(calls) + 1,
               Begin(Machine(Len(calls) + 1, c, picId, log), retries))

\* The fetch that a call awaits comes to one of the outcomes of O
SettleOn(O) ==
    \E id \in 1..Len(calls), outcome \in O :
        /\ calls[id].pc = "fetch"
        /\ Becomes(id, Settle(Machine(id, calls[id], picId, log), retries, outcome))

\* The timer of a retry fires and the call fetches again (font.ts:389-400)
Retry ==
    \E id \in 1..Len(calls) :
        /\ calls[id].pc = "delay"
        /\ Becomes(id, Fetch(Machine(id, calls[id], picId, log)))

-----------------------------------------------------------------------------
(* SpecSend: one call of send on a client with any retries option          *)

InitSend == NewClient(SendRetries, {0})

SendStart == \E s \in BOOLEAN : Start(NewCall("send", 0, s), 1)
SendSettle == SettleOn(SendOutcomes)
SendRetry == Retry

NextSend ==
    \/ SendStart
    \/ SendSettle
    \/ SendRetry

SpecSend == InitSend /\ [][NextSend]_vars

\* The requests of call id, in the order they were made
Attempts(id) == SelectSeq(log, LAMBDA e : e.call = id)

\* The response tells the failure of the kind k
Describes(resp, k) ==
    /\ resp.error_code = -1
    /\ resp.message = CASE k = "status" -> "HTTP 500 Error"
                        [] k = "timeout" -> "Request timed out"
                        [] k = "network" -> "ECONNREFUSED"
                        [] k = "badjson" -> "Unexpected token"
                        [] OTHER -> "Unknown error"

\* What C18 says of every call of send, the outcomes of Final being those
\* that end the call with the body of the response: the call makes at most
\* retries + 1 requests; a request with an outcome of Final is its last and
\* the call returns its body; a request with another outcome is followed by
\* a retry while attempts remain; and when none is left the call returns
\* error_code -1 with the description of the last failure
SendContract(Final) ==
    \A id \in 1..Len(calls) :
        LET c == calls[id]
            E == Attempts(id)
        IN  c.kind = "send" =>
            /\ Len(E) <= Max2(retries + 1, 0)
            /\ \A k \in 1..Len(E) :
                  LET o == E[k].outcome
                  IN  /\ o.kind \in Final =>
                            k = Len(E) /\ c.pc = "done" /\ c.ret = o.body
                      /\ (o.kind \notin Final \cup {"pending"} /\ k <= retries) =>
                            (Len(E) > k \/ c.pc = "delay")
                      /\ (o.kind \notin Final \cup {"pending"} /\ k > retries) =>
                            c.pc = "done" /\ Describes(c.ret, o.kind)

\* C18 as stated: send never throws or rejects, makes at most retries + 1
\* requests, returns the parsed body of the first request that gets an
\* HTTP-ok response without a further request, retries after a non-ok status,
\* a network error or a timeout, and returns error_code -1 describing the
\* last failure when every attempt has failed.
C18_SendNeverRejects ==
    /\ \A id \in 1..Len(calls) : ~calls[id].rejected
    /\ SendContract({"ok", "badjson"})

\* C18, amended: send rejects only when its params cannot be serialized; it
\* makes at most retries + 1 requests, returns the parsed body of the first
\* request that gets an HTTP-ok response with a JSON body without a further
\* request, retries after a non-ok status, a network error, a timeout or a
\* body that is no JSON, and returns error_code -1 describing the last
\* failure when every attempt has failed.
C18_SendRetries ==
    /\ \A id \in 1..Len(calls) : calls[id].rejected => ~calls[id].serializable
    /\ SendContract({"ok"})

\* With retries = 2, send got a non-ok status, then a timeout, then an ok
\* response, and returned its body
C18_Witness ==
    /\ retries = 2
    /\ Len(calls) = 1
    /\ calls[1].pc = "done"
    /\ Len(log) = 3
    /\ log[1].outcome.kind = "status"
    /\ log[2].outcome.kind = "timeout"
    /\ log[3].outcome = OkBody(PixooResponse(0, ""))
    /\ calls[1].ret = PixooResponse(0, "")

-----------------------------------------------------------------------------
(* SpecPush: calls of push and pushAnimation on one client, one after the  *)
(* other                                                                   *)

InitPush == NewClient(PushRetries, StartIds)

\* Every call started so far has settled
AllSettled == \A k \in 1..Len(calls) : calls[k].pc = "done"

PushStart ==
    /\ AllSettled
    /\ Start(NewCall("push", 1, TRUE), MaxCalls)
PushAnimationStart ==
    /\ AllSettled
    /\ \E n \in 0..MaxFrames : Start(NewCall("pushAnimation", n, TRUE), MaxCalls)
PushSettle == SettleOn(PushOutcomes)
PushRetry == Retry

NextPush ==
    \/ PushStart
    \/ PushAnimationStart
    \/ PushSettle
    \/ PushRetry

SpecPush == InitPush /\ [][NextPush]_vars


\* The commands of call id in the order they were sent: the first request
\* of every call of send
Commands(id) == SelectSeq(Attempts(id), LAMBDA e : e.attempt = 0)

\* The outcome of the j-th command of call id: that of the last request
\* made for it
OutcomeOf(id, j) ==
    LET E == Attempts(id)
        First == {k \in 1..Len(E) : E[k].attempt = 0}
        from == CHOOSE k \in First : Cardinality({i \in First : i <= k}) = j
        to == IF \E k \in First : k > from
              THEN (CHOOSE k \in First : k > from /\ \A i \in First : i > from => k <= i) - 1
              ELSE Len(E)
    IN  E[to].outcome

\* The j-th command of call id got a response and its error_code is not 0
Failed(id, j) ==
    LET o == OutcomeOf(id, j)
    IN  o.kind # "pending" /\ ~(o.kind = "ok" /\ o.body.error_code = 0)

\* The call returned the response of its j-th command
Returned(id, j) ==
    LET o == OutcomeOf(id, j)
    IN  /\ calls[id].pc = "done"
        /\ IF o.kind = "ok" THEN calls[id].ret = o.body
           ELSE calls[id].ret.error_code = -1

IsReset(e) == e.cmd = "Draw/ResetHttpGifId"
IsFrame(e, offset, n) ==
    e.cmd = "Draw/SendHttpGif" /\ e.PicOffset = offset /\ e.PicNum = n

\* C19: a pushAnimation on n >= 1 frames sends one Draw/ResetHttpGifId, then
\* Draw/SendHttpGif for the frames 0, 1, ... with PicOffset the index of the
\* frame and PicNum = n; after the first frame whose response has an
\* error_code other than 0 it sends no frame, sends one more
\* Draw/ResetHttpGifId and returns that response.  With no frames it sends
\* nothing and returns an error response.  push sends Draw/ResetHttpGifId
\* and then its one Draw/SendHttpGif.
C19_PushOrder ==
    \A id \in 1..Len(calls) :
        LET c == calls[id]
            C == Commands(id)
            Frames == {j \in 2..Len(C) : C[j].cmd = "Draw/SendHttpGif"}
        IN  /\ Len(C) > 0 => IsReset(C[1])
            /\ c.kind = "pushAnimation" /\ c.n = 0 =>
                  C = <<>> /\ c.pc = "done" /\ c.ret.error_code # 0
            /\ c.kind = "pushAnimation" =>
                  /\ \A j \in Frames :
                        /\ IsFrame(C[j], j - 2, c.n)
                        /\ j - 2 < c.n
                        /\ j < Len(C) => IF Failed(id, j)
                                         THEN j + 1 = Len(C) /\ IsReset(C[j + 1])
                                         ELSE j + 1 \in Frames
                        /\ (j = Len(C) /\ c.pc = "done") =>
                              ~Failed(id, j) /\ j - 2 = c.n - 1 /\ Returned(id, j)
                  /\ \A j \in 2..Len(C) :
                        j \notin Frames =>
                            /\ j = Len(C) /\ IsReset(C[j]) /\ j - 1 \in Frames
                            /\ Failed(id, j - 1)
                            /\ c.pc = "done" => Returned(id, j - 1)
                  /\ (c.pc = "done" /\ c.n > 0) => Len(C) >= 2
            /\ c.kind = "push" =>
                  /\ Len(C) <= 2
                  /\ Len(C) = 2 => IsFrame(C[2], 0, 1)
                  /\ c.pc = "done" => Len(C) = 2 /\ Returned(id, 2)

\* A pushAnimation on two frames whose frame 0 was accepted and whose
\* frame 1 was refused by the device has sent reset, frame 0, frame 1, reset
\* and returned the refusal
C19_Witness ==
    /\ Len(calls) = 1
    /\ calls[1].kind = "pushAnimation" /\ calls[1].n = 2
    /\ calls[1].pc = "done"
    /\ Len(Commands(1)) = 4
    /\ OutcomeOf(1, 2) = OkBody(PixooResponse(0, ""))
    /\ OutcomeOf(1, 3) = OkBody(PixooResponse(1, ""))
    /\ IsReset(Commands(1)[4])
    /\ calls[1].ret = PixooResponse(1, "")

-----------------------------------------------------------------------------
(* animation.ts: the Animation frame list                                  *)

\* An optional `size` argument that is not given
NoSize == 0

\* new Canvas(size) as Animation calls it (animation.ts:24, 54) with the
\* constructor of canvas.ts:19-24: a number is a truthy `source` whose
\* `length` is undefined, which is not BUFFER_SIZE
CanvasOfSize(h, size) ==
    IF size # NoSize THEN [threw |-> TRUE, heap |-> h, id |-> 0]
    ELSE CanvasCtor(h, 0)

\* What a constructor or a method of Animation comes to: the error it
\* throws ("" for none), the heap and the Animation after it, and the id of
\* the buffer of the canvas it returns (0 for none)
Outcome(threw, h, a, id) == [threw |-> threw, heap |-> h, anim |-> a, id |-> id]

RECURSIVE ArrayFrom(_, _, _, _)
\* Array.from({ length }, () => new Canvas(size)) (animation.ts:24): the
\* frames still to make after those of ids
ArrayFrom(h, length, size, ids) ==
    IF Len(ids) >= length
    THEN Outcome("", h, [built |-> TRUE, frames |-> ids, size |-> size], 0)
    ELSE LET c == CanvasOfSize(h, size)
         IN  IF c.threw THEN Outcome("Error", h, NoAnimation, 0)
             ELSE ArrayFrom(c.heap, length, size, Append(ids, c.id))

\* new Animation(frameCount, speed, size) (animation.ts:19-27)
AnimationCtor(h, frameCount, size) ==
    IF frameCount <= 0 THEN Outcome("RangeError", h, NoAnimation, 0)
    ELSE ArrayFrom(h, frameCount, size, <<>>)

\* Animation.frame (animation.ts:30-34); index in units of 1/Den
frame(h, a, index) ==
    IF index % Den = 0 /\ index \div Den >= 0 /\ index \div Den < Len(a.frames)
    THEN Outcome("", h, a, a.frames[index \div Den + 1])
    ELSE Outcome("RangeError", h, a, 0)

\* Animation.addFrame (animation.ts:53-57)
addFrame(h, a) ==
    LET c == CanvasOfSize(h, a.size)
    IN  IF c.threw THEN Outcome("Error", h, a, 0)
        ELSE Outcome("", c.heap, [a EXCEPT !.frames = Append(@, c.id)], c.id)

\* Inputs of the Animation

\* Largest frameCount given to the constructor
MaxFrameCount == 3
\* Most calls on one Animation
MaxAnimOps == 3
FrameCounts == (-1)..MaxFrameCount
\* The size argument: not given, or the size of the display
FrameSizes == {NoSize, DISPLAY_SIZE}
\* Indices given to frame, in units of 1/Den: from -1 to beyond the last
\* frame, and a fraction
FrameIndices == {k * Den : k \in (-1)..(MaxFrameCount + MaxAnimOps)} \cup {1}

-----------------------------------------------------------------------------
(* SpecAnim: an Animation is constructed, grown, indexed and drawn on      *)

\* The call `name(args)` on the Animation came to the outcome r
AnimOp(name, args, r) ==
    /\ heap' = r.heap
    /\ anim' = r.anim
    /\ nops' = nops + 1
    /\ last' = [op |-> name, on |-> "", arg |-> args, pre |-> heap,
                ret |-> [threw |-> r.threw, id |-> r.id]]
    /\ UNCHANGED <<cv, origin, source, oob, clientVars>>

NewAnimation ==
    /\ ~anim.built
    /\ nops = 0
    /\ \E n \in FrameCounts, size \in FrameSizes :
          AnimOp("Animation", <<n, size>>, AnimationCtor(heap, n, size))

AddFrame ==
    /\ anim.built
    /\ nops <= MaxAnimOps
    /\ AnimOp("addFrame", <<Len(anim.frames)>>, addFrame(heap, anim))

Frame ==
    /\ anim.built
    /\ nops <= MaxAnimOps
    /\ \E i \in FrameIndices : AnimOp("frame", <<i>>, frame(heap, anim, i))

\* anim.frame(i).setPixel(x, y, color)
FrameSetPixel ==
    /\ anim.built
    /\ nops <= MaxAnimOps
    /\ \E i \in 1..Len(anim.frames), c \in DrawColors \cup FarColors :
          LET r == setPixel(heap[anim.frames[i]], Den, Den, c)
          IN  AnimOp("frame.setPixel", <<(i - 1) * Den, c>>,
                     Outcome("", [heap EXCEPT ![anim.frames[i]] = r.buf], anim,
                             anim.frames[i]))

NextAnim ==
    \/ NewAnimation
    \/ AddFrame
    \/ Frame
    \/ FrameSetPixel

SpecAnim == InitColor /\ [][NextAnim]_vars

\* C20: an Animation constructed with a frameCount n > 0 has n frames and
\* every addFrame adds one; its frames are pairwise distinct canvases, and
\* drawing on one changes no other; frame(i) returns the i-th frame for
\* every integer 0 <= i < length and throws RangeError for every other
\* index; constructing with a frameCount <= 0 throws RangeError.
C20_AnimationFrames ==
    /\ last.op = "Animation" =>
          IF last.arg[1] <= 0 THEN last.ret.threw = "RangeError" /\ ~anim.built
          ELSE last.ret.threw = "" /\ anim.built /\ Len(anim.frames) = last.arg[1]
    /\ last.op = "addFrame" =>
          last.ret.threw = "" /\ Len(anim.frames) = last.arg[1] + 1
    /\ \A i, j \in 1..Len(anim.frames) : i # j => anim.frames[i] # anim.frames[j]
    /\ last.op = "frame.setPixel" =>
          \A j \in 1..Len(anim.frames) :
              anim.frames[j] # last.ret.id => heap[anim.frames[j]] = last.pre[anim.frames[j]]
    /\ last.op = "frame" =>
          LET i == last.arg[1]
          IN  IF i % Den = 0 /\ 0 <= i \div Den /\ i \div Den < Len(anim.frames)
              THEN last.ret.threw = "" /\ last.ret.id = anim.frames[i \div Den + 1]
              ELSE last.ret.threw = "RangeError"


\* ---------------------------------------------------------------------
\* Shapes with whole-number vertices: one fillTriangle, drawRect or
\* drawLine call on a canvas with known content (SpecShape)
\* ---------------------------------------------------------------------

\* Every whole-number point from one pixel before the surface to one pixel
\* beyond it, in units of 1/Den
GridCoords == (-1)..DISPLAY_SIZE
GridPoints == {<<gx * Den, gy * Den>> : gx \in GridCoords, gy \in GridCoords}

\* Whole-number vertices before, on the edges of, inside and beyond the
\* surface, in units of 1/Den
VertexCoords == {-1, 0, 1, DISPLAY_SIZE - 1, DISPLAY_SIZE}
VertexPoints == {<<gx * Den, gy * Den>> : gx \in VertexCoords, gy \in VertexCoords}

FillTriangleGrid ==
    /\ nops = 0
    /\ FillTriangleOn("a", VertexPoints, DrawColors)

\* Twice the signed area of the triangle p, q, t
Orient(p, q, t) == (q[1] - p[1]) * (t[2] - p[2]) - (q[2] - p[2]) * (t[1] - p[1])

\* The point t lies in the closed triangle p, q, r (for collinear vertices:
\* on the segment they span)
InTriangle(p, q, r, t) ==
    /\ \/ Orient(p, q, t) >= 0 /\ Orient(q, r, t) >= 0 /\ Orient(r, p, t) >= 0
       \/ Orient(p, q, t) <= 0 /\ Orient(q, r, t) <= 0 /\ Orient(r, p, t) <= 0
    /\ t[1] >= Min2(p[1], Min2(q[1], r[1]))
    /\ t[1] <= Max2(p[1], Max2(q[1], r[1]))
    /\ t[2] >= Min2(p[2], Min2(q[2], r[2]))
    /\ t[2] <= Max2(p[2], Max2(q[2], r[2]))

SurfacePixels == (0..(DISPLAY_SIZE - 1)) \X (0..(DISPLAY_SIZE - 1))

\* C21: after fillTriangle with whole-number vertices, every pixel of the
\* surface on a row from the smallest to the largest vertex y that lies
\* between the two edges crossing that row (the row of a flat bottom edge
\* included) has the resolved color, and every other pixel is as it was.
C21_FillTriangleRows ==
    last.op = "fillTriangle" =>
        LET p == last.arg[1]
            q == last.arg[2]
            r == last.arg[3]
            rgb == resolveColor(last.arg[4])
            pre == last.pre[cv[last.on]]
            post == heap[cv[last.on]]
        IN  \A s \in SurfacePixels :
                IF InTriangle(p, q, r, <<s[1] * Den, s[2] * Den>>)
                THEN PixelAt(post, s[1], s[2]) = rgb
                ELSE PixelAt(post, s[1], s[2]) = PixelAt(pre, s[1], s[2])

\* The same for every triangle but those whose two lower vertices share
\* their y
C21_SlopedBottomRows ==
    (last.op = "fillTriangle" /\
     LET ys == {last.arg[1][2], last.arg[2][2], last.arg[3][2]}
         top == CHOOSE m \in ys : \A o \in ys : o <= m
     IN  Cardinality({k \in 1..3 : last.arg[k][2] = top}) = 1)
        => C21_FillTriangleRows

\* Whole-number widths and heights from 0 to one more than the surface, in
\* units of 1/Den
GridLens == {gl * Den : gl \in 0..(DISPLAY_SIZE + 1)}

DrawRectGrid ==
    /\ nops = 0
    /\ DrawRectOn("a", GridPoints, GridLens, DrawColors)

\* Pixel s is as it was before the last operation
Untouched(s) ==
    PixelAt(heap[cv[last.on]], s[1], s[2]) = PixelAt(last.pre[cv[last.on]], s[1], s[2])

\* Pixel s has the color c after the last operation
Painted(s, c) == PixelAt(heap[cv[last.on]], s[1], s[2]) = resolveColor(c)

\* Column s[1] is in [x, x+w-1] and row s[2] is in [y, y+h-1] (whole
\* numbers)
InRect(s, x, y, w, h) ==
    /\ x <= s[1] /\ s[1] <= x + w - 1
    /\ y <= s[2] /\ s[2] <= y + h - 1

OnBorder(s, x, y, w, h) ==
    /\ InRect(s, x, y, w, h)
    /\ s[1] = x \/ s[1] = x + w - 1 \/ s[2] = y \/ s[2] = y + h - 1

\* drawRect(x, y, w, h, color) sets the border pixels of the rectangle that
\* lie on the surface and leaves every other pixel as it was
RectOutline ==
    LET x == last.arg[1] \div Den
        y == last.arg[2] \div Den
        w == last.arg[3] \div Den
        h == last.arg[4] \div Den
    IN  \A s \in SurfacePixels :
            IF OnBorder(s, x, y, w, h) THEN Painted(s, last.arg[5])
            ELSE Untouched(s)

\* C22: for whole x, y and whole w >= 0, h >= 0, drawRect(x, y, w, h, color)
\* changes only pixels with column in [x, x+w-1] and row in [y, y+h-1]; for
\* w >= 1 and h >= 1 it sets exactly the border pixels of that rectangle
\* that lie on the surface and leaves the interior as it was.
C22_DrawRectFrame ==
    last.op = "drawRect" =>
        /\ \A s \in SurfacePixels :
              InRect(s, last.arg[1] \div Den, last.arg[2] \div Den,
                     last.arg[3] \div Den, last.arg[4] \div Den) \/ Untouched(s)
        /\ (last.arg[3] >= Den /\ last.arg[4] >= Den) => RectOutline

\* The same for w >= 1 and h >= 1, and for w = h = 0
C22_ProperRectFrame ==
    (last.op = "drawRect" /\ ((last.arg[3] = 0) <=> (last.arg[4] = 0)))
        => RectOutline

\* The loop of Canvas.drawLine (canvas.ts:172-184) with a one-axis step per
\* iteration: `else if` in place of the second `if`
RECURSIVE LineWalkAxisSteps(_, _, _, _, _, _, _, _, _)
LineWalkAxisSteps(cx, cy, x1, y1, dx, dy, sx, sy, err) ==
    <<<<cx, cy>>>> \o
    (IF cx = x1 /\ cy = y1 THEN <<>>
     ELSE LET e2 == 2 * err
              stepx == e2 >= dy
              stepy == ~stepx /\ e2 <= dx
          IN  LineWalkAxisSteps(IF stepx THEN cx + sx ELSE cx,
                                IF stepy THEN cy + sy ELSE cy,
                                x1, y1, dx, dy, sx, sy,
                                err + (IF stepx THEN dy ELSE 0) + (IF stepy THEN dx ELSE 0)))

\* The loop of Canvas.drawLine (canvas.ts:172-184): the points handed to
\* setPixel, one per iteration, in order
RECURSIVE LineWalk(_, _, _, _, _, _, _, _, _)
LineWalk(cx, cy, x1, y1, dx, dy, sx, sy, err) ==
    <<<<cx, cy>>>> \o
    (IF cx = x1 /\ cy = y1 THEN <<>>
     ELSE LET e2 == 2 * err
              stepx == e2 >= dy
              stepy == e2 <= dx
          IN  LineWalk(IF stepx THEN cx + sx ELSE cx,
                       IF stepy THEN cy + sy ELSE cy,
                       x1, y1, dx, dy, sx, sy,
                       err + (IF stepx THEN dy ELSE 0) + (IF stepy THEN dx ELSE 0)))

\* The iterations of drawLine(x0, y0, x1, y1, color), endpoints in units of
\* 1/Den (canvas.ts:160-171)
LineIterations(x0, y0, x1, y1) ==
    LET fx0 == Floor(x0)
        fy0 == Floor(y0)
        fx1 == Floor(x1)
        fy1 == Floor(y1)
        dx == Abs(fx1 - fx0)
        dy == -Abs(fy1 - fy0)
        sx == IF fx0 < fx1 THEN 1 ELSE -1
        sy == IF fy0 < fy1 THEN 1 ELSE -1
    IN  LineWalk(fx0, fy0, fx1, fy1, dx, dy, sx, sy, dx + dy)

\* Endpoints of lines in units of 1/Den, whole and fractional, from one
\* pixel before the surface to half a pixel beyond it
LineCoords == (-Den)..(DISPLAY_SIZE * Den + 1)
LineEnds == LineCoords \X LineCoords

DrawLineAny ==
    /\ nops = 0
    /\ DrawLineOn("a", LineEnds, DrawColors)

\* C23: drawLine ends for endpoints on and off the surface; with the
\* endpoints floored its loop runs max(|x1-x0|, |y1-y0|) + 1 iterations, the
\* first at (x0, y0), the last at (x1, y1), each point 8-adjacent to the one
\* before; the pixels of the surface among these points, and no others, are
\* set, so a line with equal endpoints plots that single pixel.
C23_DrawLineWalk ==
    last.op = "drawLine" =>
        LET x0 == Floor(last.arg[1][1])
            y0 == Floor(last.arg[1][2])
            x1 == Floor(last.arg[2][1])
            y1 == Floor(last.arg[2][2])
            walk == LineIterations(last.arg[1][1], last.arg[1][2],
                                   last.arg[2][1], last.arg[2][2])
            visited == {walk[k] : k \in 1..Len(walk)}
        IN  /\ Len(walk) = Max2(Abs(x1 - x0), Abs(y1 - y0)) + 1
            /\ walk[1] = <<x0, y0>>
            /\ walk[Len(walk)] = <<x1, y1>>
            /\ \A k \in 2..Len(walk) :
                  /\ walk[k] # walk[k - 1]
                  /\ Abs(walk[k][1] - walk[k - 1][1]) <= 1
                  /\ Abs(walk[k][2] - walk[k - 1][2]) <= 1
            /\ \A s \in SurfacePixels :
                  IF s \in visited THEN Painted(s, last.arg[3]) ELSE Untouched(s)
            /\ (x0 = x1 /\ y0 = y1) => visited = {<<x0, y0>>}

\* A drawLine between two different pixels, one of them off the surface,
\* neither horizontal nor vertical nor diagonal, has been drawn
C23_Witness ==
    /\ last.op = "drawLine"
    /\ LET x0 == Floor(last.arg[1][1])
           y0 == Floor(last.arg[1][2])
           x1 == Floor(last.arg[2][1])
           y1 == Floor(last.arg[2][2])
       IN  /\ x0 = -1 /\ x1 = DISPLAY_SIZE - 1
           /\ Abs(y1 - y0) = 2
           /\ last.arg[1][1] % Den # 0
           /\ \E s \in SurfacePixels : ~Untouched(s)

NextShape ==
    \/ DrawLineAny
    \/ DrawRectGrid
    \/ FillTriangleGrid

SpecShape == InitOp /\ [][NextShape]_vars


\* ---------------------------------------------------------------------
\* blit and scroll with whole and fractional offsets (SpecOffset)
\* ---------------------------------------------------------------------

\* Every offset in steps of 1/Den that keeps, partly keeps or loses the
\* overlap of two surfaces
AnyOffsets == (-(DISPLAY_SIZE + 1) * Den)..((DISPLAY_SIZE + 1) * Den)

BlitAny ==
    /\ nops = 0
    /\ BlitOn("a", "b", AnyOffsets \X AnyOffsets, BlitKeys)

ScrollAny ==
    /\ nops = 0
    /\ ScrollOn("a", AnyOffsets \X AnyOffsets)

NextOffset ==
    \/ BlitAny
    \/ ScrollAny

SpecOffset == InitOp /\ [][NextOffset]_vars

\* C24: blit(source, dx, dy) leaves the canvas as blit(source, floor(dx),
\* floor(dy)) does, and scroll(dx, dy) as scroll(floor(dx), floor(dy)) does,
\* for fractional dx or dy too; no byte of a pixel comes from another
\* channel or from a byte that is not the start of a pixel.
C24_OffsetsFloored ==
    /\ last.op = "blit" =>
          Buf(last.on) = blit(last.pre[cv[last.on]], last.pre[cv[last.arg[1]]], FALSE,
                              Floor(last.arg[2]) * Den, Floor(last.arg[3]) * Den,
                              last.arg[4]).buf
    /\ last.op = "scroll" =>
          Buf(last.on) = scroll(last.pre[cv[last.on]],
                                Floor(last.arg[1]) * Den, Floor(last.arg[2]) * Den).buf


\* ---------------------------------------------------------------------
\* svg-path.ts: fillPolygon on a list of points (SpecPoly)
\* ---------------------------------------------------------------------

\* The edge from a to bpt crosses the sample line scanY = y + 0.5
\* (svg-path.ts:231); points in units of 1/Den, compared after doubling
EdgeCrosses(a, bpt, y) ==
    LET scanY2 == 2 * y * Den + Den
    IN  \/ 2 * a[2] <= scanY2 /\ 2 * bpt[2] > scanY2
        \/ 2 * bpt[2] <= scanY2 /\ 2 * a[2] > scanY2

\* a.x + t * (bpt.x - a.x) with t = (scanY - a.y) / (bpt.y - a.y)
\* (svg-path.ts:232-233) as the exact fraction <<n, d>>, d > 0, in units
\* of 1/Den
EdgeIntersection(a, bpt, y) ==
    LET scanY2 == 2 * y * Den + Den
        d == 2 * (bpt[2] - a[2])
        n == a[1] * d + (scanY2 - 2 * a[2]) * (bpt[1] - a[1])
    IN  IF d > 0 THEN <<n, d>> ELSE <<-n, -d>>

RECURSIVE IntersectionsClosed(_, _, _)
\* The intersections of row y with the edges i, i + 1, ... and with an edge
\* from the last point back to the first
IntersectionsClosed(points, y, i) ==
    IF i > Len(points) THEN <<>>
    ELSE LET a == points[i]
             bpt == points[(i % Len(points)) + 1]
         IN  (IF EdgeCrosses(a, bpt, y) THEN <<EdgeIntersection(a, bpt, y)>> ELSE <<>>)
                 \o IntersectionsClosed(points, y, i + 1)

RECURSIVE Intersections(_, _, _)
\* The inner loop of fillPolygon over the edges i, i + 1, ...
\* (svg-path.ts:226-235)
Intersections(points, y, i) ==
    IF i > Len(points) - 1 THEN <<>>
    ELSE LET a == points[i]
             bpt == points[i + 1]
         IN  (IF EdgeCrosses(a, bpt, y) THEN <<EdgeIntersection(a, bpt, y)>> ELSE <<>>)
                 \o Intersections(points, y, i + 1)

RECURSIVE InsertRat(_, _)
InsertRat(v, sorted) ==
    IF sorted = <<>> THEN <<v>>
    ELSE IF RatLeq(Head(sorted), v) THEN <<Head(sorted)>> \o InsertRat(v, Tail(sorted))
    ELSE <<v>> \o sorted

RECURSIVE SortAscending(_)
\* intersections.sort((a, b) => a - b) (svg-path.ts:237)
SortAscending(xs) ==
    IF xs = <<>> THEN <<>> ELSE InsertRat(Head(xs), SortAscending(Tail(xs)))

\* The columns filled between the pairs of sorted intersections
\* (svg-path.ts:240-246)
FillSpans(xs) ==
    UNION {Max2(0, CeilDiv(xs[i][1], xs[i][2] * Den))
               ..Min2(DISPLAY_SIZE - 1, FloorDiv(xs[i + 1][1], xs[i + 1][2] * Den)) :
           i \in {k \in 1..(Len(xs) - 1) : k % 2 = 1}}

\* fillPolygon (svg-path.ts:207-248); points in units of 1/Den
fillPolygon(b, points, c) ==
    IF Len(points) < 3 THEN Result(b, FALSE)
    ELSE LET rgb == resolveColor(c)
             ys == {points[k][2] : k \in 1..Len(points)}
             minY == CHOOSE m \in ys : \A o \in ys : m <= o
             maxY == CHOOSE m \in ys : \A o \in ys : o <= m
             yStart == Max2(0, Floor(minY))
             yEnd == Min2(DISPLAY_SIZE - 1, Ceil(maxY))
         IN  SetPixels(b,
                       UNION {{<<x * Den, y * Den>> :
                                  x \in FillSpans(SortAscending(Intersections(points, y, 1)))} :
                              y \in yStart..yEnd},
                       RGBOf(rgb))

\* Lists of up to MaxPoints points, whole and fractional, on and off the
\* surface
MaxPoints == 5
PolyPoints == {<<-Den, 0>>, <<1, DISPLAY_SIZE * Den>>, <<Den, 0>>,
               <<2 * Den, (DISPLAY_SIZE - 1) * Den>>, <<3 * Den, 1>>,
               <<DISPLAY_SIZE * Den, 2 * Den>>}
PointLists == UNION {[1..n -> PolyPoints] : n \in 0..MaxPoints}

FillPolygonCall ==
    /\ nops = 0
    /\ \E points \in PointLists, c \in DrawColors :
          Draw("a", "fillPolygon", <<points, c>>, fillPolygon(Buf("a"), points, c))

SpecPoly == InitOp /\ [][FillPolygonCall]_vars

\* The intersections of row y with the edges between consecutive points,
\* as a function of the edge number
CrossingsOf(points, y) ==
    [i \in {k \in 1..(Len(points) - 1) : EdgeCrosses(points[k], points[k + 1], y)} |->
        EdgeIntersection(points[i], points[i + 1], y)]

\* The p-th smallest value of the family X of fractions
Smallest(X, p) ==
    LET v == CHOOSE i \in DOMAIN X :
                 /\ Cardinality({k \in DOMAIN X : ~RatLeq(X[i], X[k])}) < p
                 /\ p <= Cardinality({k \in DOMAIN X : RatLeq(X[k], X[i])})
    IN  X[v]

\* Column x lies between the 1st and 2nd, or the 3rd and 4th, ... of the
\* sorted intersections of row y
InPairedSpan(points, x, y) ==
    LET X == CrossingsOf(points, y)
        N == Cardinality(DOMAIN X)
    IN  \E p \in 1..(N - 1) :
            /\ p % 2 = 1
            /\ RatLeq(Smallest(X, p), <<x * Den, 1>>)
            /\ RatLeq(<<x * Den, 1>>, Smallest(X, p + 1))

\* C25: fillPolygon on at least 3 points sets pixel (x, y) of the surface
\* exactly when x lies between the 1st and 2nd, or the 3rd and 4th, ...
\* sorted intersection of the line y + 0.5 with the edges between
\* consecutive points (no closing edge); an unpaired last intersection
\* fills nothing, and fewer than 3 points leave the canvas unchanged.
C25_FillPolygonSpans ==
    last.op = "fillPolygon" =>
        \A s \in SurfacePixels :
            IF Len(last.arg[1]) >= 3 /\ InPairedSpan(last.arg[1], s[1], s[2])
            THEN Painted(s, last.arg[2])
            ELSE Untouched(s)

\* A fillPolygon whose list is open, with a row of four intersections, both
\* spans of it on the surface, and a row with an unpaired intersection
C25_Witness ==
    /\ last.op = "fillPolygon"
    /\ Len(last.arg[1]) >= 3
    /\ last.arg[1][1] # last.arg[1][Len(last.arg[1])]
    /\ \E y \in 0..(DISPLAY_SIZE - 1) :
          LET X == CrossingsOf(last.arg[1], y)
          IN  /\ Cardinality(DOMAIN X) = 4
              /\ \E x \in 1..(DISPLAY_SIZE - 2) :
                    /\ ~InPairedSpan(last.arg[1], x, y)
                    /\ InPairedSpan(last.arg[1], x - 1, y)
                    /\ InPairedSpan(last.arg[1], x + 1, y)
                    /\ ~Untouched(<<x - 1, y>>)
    /\ \E y \in 0..(DISPLAY_SIZE - 1) :
          Cardinality(DOMAIN CrossingsOf(last.arg[1], y)) = 3


\* ---------------------------------------------------------------------
\* svg-path.ts: curve commands of the path interpreter (SpecCurve)
\* ---------------------------------------------------------------------

\* Longest path of curve commands, in tokens
MaxCurveTokens == 3

\* The arguments 1, 2, ..., n
Counting(n) == [k \in 1..n |-> k]

\* The number of arguments of one group of a curve command
GroupSize(cmd) ==
    CASE cmd \in {"C", "c"} -> 6
      [] cmd \in {"S", "s", "Q", "q"} -> 4
      [] cmd \in {"T", "t"} -> 2
      [] cmd \in {"A", "a"} -> 7

CurveLetters == {"C", "c", "S", "s", "Q", "q", "T", "t", "A", "a"}

\* Every curve command with one complete group, with two groups, with one
\* group and an incomplete one, and with an incomplete group only; and a
\* move that sets the current point
CurveTokens ==
    {Token(cmd, Counting(n)) :
        cmd \in CurveLetters,
        n \in {1, 2, 3, 4, 6, 7, 8, 9, 12, 14}} \cup {Token("M", <<10, 20>>)}
CurvePaths == UNION {[1..k -> {t \in CurveTokens :
                                  \/ t.cmd = "M"
                                  \/ Len(t.args) \in {GroupSize(t.cmd) - 1, GroupSize(t.cmd),
                                                      GroupSize(t.cmd) + 1,
                                                      2 * GroupSize(t.cmd)}}] :
                     k \in 0..MaxCurveTokens}

ParseCurvePathCall ==
    /\ nops = 0
    /\ \E tokens \in CurvePaths : Call("parseSvgPath", <<tokens>>, parseSvgPath(tokens))

SpecCurve == InitColor /\ [][ParseCurvePathCall]_vars

\* C26: every complete group of arguments of a curve command (6 numbers for
\* C/c, 4 for S/s and Q/q, 2 for T/t, 7 for A/a) appends one point, the last
\* pair of the group for the uppercase letter and the current point plus that
\* pair for the lowercase letter, and makes it the current point; an
\* incomplete last group appends nothing, and no other point is appended.
C26_CurveEndpoints ==
    last.op = "parseSvgPath" =>
        LET tokens == last.arg[1]
        IN  \A k \in 1..Len(tokens) :
                tokens[k].cmd \in CurveLetters =>
                    LET before == After(tokens, k - 1)
                        after == After(tokens, k)
                        args == tokens[k].args
                        n == GroupSize(tokens[k].cmd)
                        groups == Len(args) \div n
                        base == Len(before.points)
                        relative == tokens[k].cmd \in {"c", "s", "q", "t", "a"}
                        current(j) == IF j = 0 THEN <<before.cx, before.cy>>
                                      ELSE after.points[base + j]
                    IN  /\ Len(after.points) = base + groups
                        /\ SubSeq(after.points, 1, base) = before.points
                        /\ \A j \in 1..groups :
                              after.points[base + j] =
                                  IF relative
                                  THEN <<Plus(current(j - 1)[1], <<args[j * n - 1]>>),
                                         Plus(current(j - 1)[2], <<args[j * n]>>)>>
                                  ELSE <<<<args[j * n - 1]>>, <<args[j * n]>>>>
                        /\ <<after.cx, after.cy>> = current(groups)
                        /\ SubSeq(last.ret, 1, Len(after.points)) = after.points

\* A path has been parsed that moves to (10, 20), draws a relative cubic
\* curve with two groups and then an arc with one group and two further
\* arguments
C26_Witness ==
    /\ last.op = "parseSvgPath"
    /\ last.arg[1] = <<Token("M", <<10, 20>>), Token("c", Counting(12)),
                       Token("A", Counting(8))>>
    /\ last.ret = << <<<<10>>, <<20>>>>, <<<<15>>, <<26>>>>, <<<<26>>, <<38>>>>,
                     <<<<6>>, <<7>>>> >>


\* ---------------------------------------------------------------------
\* PixooClient: the PicID counter (SpecPush)
\* ---------------------------------------------------------------------

\* The Draw/SendHttpGif requests of call id
FrameRequests(id) == SelectSeq(Attempts(id), LAMBDA e : e.cmd = "Draw/SendHttpGif")

\* In this step call id gets the response of its first resetGifId and goes
\* on to its frames (font.ts:437-439, 458-461)
PassesReset(id) ==
    /\ id \in 1..Len(calls)
    /\ calls[id].stage = "reset"
    /\ calls'[id].stage = "frame"

\* What a step does to this.picId: it stays an integer of 0..9999, and it
\* goes up by 1 modulo 10000 in the steps in which a call passes its first
\* resetGifId and stays as it is in every other step
PicIdStep ==
    /\ picId' \in 0..9999
    /\ IF \E id \in 1..Len(calls) : PassesReset(id)
       THEN picId' = (picId + 1) % 10000
       ELSE picId' = picId

\* A call passes its first resetGifId once: a settled push or pushAnimation
\* on n >= 1 frames has sent a frame, its frames carry one PicID, and the
\* frames of the next such call carry that PicID plus 1 modulo 10000
PicIdPerCall ==
    /\ picId \in 0..9999
    /\ \A id \in 1..Len(calls) :
          LET F == FrameRequests(id)
          IN  /\ (calls[id].pc = "done" /\ calls[id].n > 0) => Len(F) > 0
              /\ \A k \in 1..Len(F) : F[k].PicID = F[1].PicID
              /\ (Len(F) > 0 /\ id = Len(calls)) => picId = F[1].PicID
              /\ \A j \in 1..(id - 1) :
                    (Len(F) > 0 /\ Len(FrameRequests(j)) > 0
                     /\ \A i \in (j + 1)..(id - 1) : FrameRequests(i) = <<>>)
                        => F[1].PicID = (FrameRequests(j)[1].PicID + 1) % 10000

\* C27: in every state of a client, after any number of push and
\* pushAnimation calls, successful or failed, the PicID counter is an integer
\* of 0..9999; each push and each pushAnimation on at least one frame raises
\* it by exactly 1 modulo 10000, so that two pushes in a row never carry the
\* same PicID.
C27_PicIdCounter == []PicIdPerCall /\ [][PicIdStep]_vars

\* On a client whose counter stood at 9999, a pushAnimation on two frames
\* has sent both with PicID 0 and a push after it has sent its frame with
\* PicID 1
C27_Witness ==
    /\ Len(calls) = 2
    /\ calls[1].kind = "pushAnimation" /\ calls[1].n = 2 /\ calls[1].pc = "done"
    /\ calls[2].kind = "push" /\ calls[2].pc = "done"
    /\ Len(FrameRequests(1)) >= 2
    /\ \A k \in 1..Len(FrameRequests(1)) : FrameRequests(1)[k].PicID = 0
    /\ FrameRequests(2)[1].PicID = 1
    /\ picId = 1


\* ---------------------------------------------------------------------
\* SpecOverlap: calls of push and pushAnimation on one client that are
\* started while another call awaits a response
\* ---------------------------------------------------------------------

\* A client that does not retry: every request is answered once
InitOverlap == NewClient({0}, StartIds)

OverlapPushStart == Start(NewCall("push", 1, TRUE), MaxCalls)
OverlapAnimationStart ==
    \E n \in 1..MaxFrames : Start(NewCall("pushAnimation", n, TRUE), MaxCalls)
OverlapSettle == SettleOn(PushOutcomes)

NextOverlap ==
    \/ OverlapPushStart
    \/ OverlapAnimationStart
    \/ OverlapSettle

SpecOverlap == InitOverlap /\ [][NextOverlap]_vars

\* C28: all Draw/SendHttpGif requests of one pushAnimation call carry the
\* same PicID, whatever other push or pushAnimation calls are started on the
\* client while the call awaits a response.
C28_OnePicIdPerAnimation ==
    \A id \in 1..Len(calls) :
        calls[id].kind = "pushAnimation" =>
            \A j, k \in 1..Len(FrameRequests(id)) :
                FrameRequests(id)[j].PicID = FrameRequests(id)[k].PicID

\* The same for calls that do not overlap: no call was started while
\* another one had a request or a retry pending
C28_OnePicIdWithoutOverlap ==
    (\A i, j \in 1..Len(log) : i < j => log[i].call <= log[j].call)
        => C28_OnePicIdPerAnimation


\* ---------------------------------------------------------------------
\* font.ts: the extent of drawn text in the built-in fonts (SpecGlyph)
\* ---------------------------------------------------------------------

\* Longest text drawn
MaxGlyphs == 2

\* A space, glyphs narrower than their font, a glyph of the full width and
\* a lowercase letter
GlyphChars == {" ", "!", ")", "A", "a"}
\* The built-in fonts: FONT_5x7 by default and by name, and FONT_3x5
BuiltinFonts == {NoFont, FONT_5x7, FONT_3x5}
\* letterSpacing >= 0 in units of 1/Den: absent, 0, 1 and 2
GlyphSpacings == {<<>>, <<0>>, <<Den>>, <<2 * Den>>}
\* Whole scales >= 1 in units of 1/Den: absent, 1 and 2
GlyphScales == {<<>>, <<Den>>, <<2 * Den>>}
\* Whole positions in units of 1/Den that bring each part of a glyph onto
\* the surface
GlyphSpots == {<<gx * Den, gy * Den>> : gx \in {-4, -2, 0, 1}, gy \in {-4, -1, 0}}

DrawBuiltinTextCall ==
    /\ nops = 0
    /\ \E text \in UNION {[1..k -> GlyphChars] : k \in 0..MaxGlyphs},
          p \in GlyphSpots, f \in BuiltinFonts, s \in GlyphSpacings, k \in GlyphScales :
          LET opts == TextOptions(f, s, k)
              r == drawText(Buf("a"), text, p[1], p[2], RGBc(255, 0, 0), opts)
          IN  /\ heap' = [heap EXCEPT ![cv["a"]] = r.buf]
              /\ oob' = (oob \/ r.bad)
              /\ nops' = 1
              /\ last' = [op |-> "drawText", on |-> "a",
                          arg |-> <<text, p[1], p[2], opts>>,
                          pre |-> heap, ret |-> r.ret]
              /\ UNCHANGED <<cv, origin, source, clientVars, anim>>

SpecGlyph == InitOp /\ [][DrawBuiltinTextCall]_vars

\* Every pixel that the last drawText changed lies in the columns
\* [x, x + measureText(text, opts)) and the rows [y, y + font.height * scale)
WithinMeasuredBox ==
    LET text == last.arg[1]
        x == last.arg[2]
        y == last.arg[3]
        opts == last.arg[4]
        scale == OrDefault(opts.scale, Den)
    IN  \A s \in SurfacePixels :
            Untouched(s) \/
                /\ x * Den <= s[1] * Den * Den
                /\ s[1] * Den * Den < x * Den + measureText(text, opts)
                /\ y * Den <= s[2] * Den * Den
                /\ s[2] * Den * Den < y * Den + FontOrDefault(opts).height * scale * Den

\* C29: in FONT_5x7 and FONT_3x5, for every text, letterSpacing >= 0 and
\* whole scale >= 1, every pixel that drawText(canvas, text, x, y, ...)
\* changes lies in the columns [x, x + measureText(text, opts)) and the rows
\* [y, y + font.height * scale): no set bit of a glyph is drawn beyond the
\* trimmed width of the glyph.
C29_TextWithinMeasure ==
    last.op = "drawText" => WithinMeasuredBox

\* The same for the texts that do not end in ')' set in FONT_3x5
C29_ButCompactParenthesis ==
    (/\ last.op = "drawText"
     /\ ~(/\ last.arg[4].font = FONT_3x5
          /\ last.arg[1] # <<>>
          /\ last.arg[1][Len(last.arg[1])] = ")"))
        => WithinMeasuredBox


\* The six orders of three vertices
VertexOrders == {<<1, 2, 3>>, <<1, 3, 2>>, <<2, 1, 3>>, <<2, 3, 1>>, <<3, 1, 2>>, <<3, 2, 1>>}

\* C30: fillTriangle does not depend on the order of its vertices: for
\* whole-number vertices each of the six orders of the same three points,
\* applied to the same canvas, leaves the same pixels, also when two or
\* three vertices share their y.
C30_VertexOrderFree ==
    last.op = "fillTriangle" =>
        \A o \in VertexOrders :
            LET p == last.arg[o[1]]
                q == last.arg[o[2]]
                r == last.arg[o[3]]
            IN  Buf(last.on) = fillTriangle(last.pre[cv[last.on]], p[1], p[2], q[1], q[2],
                                            r[1], r[2], last.arg[4]).buf

\* A triangle with a flat top has been filled whose vertices were given
\* lowest first and the top vertices right to left, and it covers pixels
C30_Witness ==
    /\ last.op = "fillTriangle"
    /\ last.arg[1] = <<Den, 3 * Den>>
    /\ last.arg[2] = <<3 * Den, 0>>
    /\ last.arg[3] = <<0, 0>>
    /\ \A s \in {<<0, 0>>, <<3, 0>>, <<1, 1>>, <<1, 3>>} : Painted(s, last.arg[4])
    /\ Buf(last.on) # last.pre[cv[last.on]]

=============================================================================
